---- MODULE Spec2Model ----
(***************************************************************************)
(* Verification model of the Alex / TreeAI pricing and scoring core.       *)
(*                                                                         *)
(* Numbers: Python floats are modelled in fixed point.                     *)
(*   - hourly money amounts are integers in units of 1/10000 dollar ("U"), *)
(*   - annual money amounts and purchase prices are integers in cents,     *)
(*   - percentages and factors are integers in 1/100 (severity 1.25 = 125),*)
(*   - AFISS domain scores are whole points, composite scores are in       *)
(*     1/100 point (23.15 = 2315).                                         *)
(* Divisions round down, which stands for the float rounding of the code.  *)
(***************************************************************************)
EXTENDS Integers, Sequences, FiniteSets, TLC

VARIABLES
    member_heap,            \* the crew-member dict objects: id -> [position, hourly_rate]
    loadout_templates,      \* LoadoutPricingIntelligence.loadout_templates
    target_profit_margins,  \* LoadoutPricingIntelligence.target_profit_margins (percent)
    returned,               \* the configuration returned by the latest optimize call
    last_call,              \* the latest call on the engine: [op, input, output]
    first_call,             \* the first call made on the engine
    ncalls,                 \* number of calls made on the engine
    afiss,                  \* the latest AFISS result
    calc,                   \* the latest result of a stateless calculator call
    learning_cycle,         \* ContinuousLearningPipeline.learning_cycle
    is_running,             \* LearningScheduler.is_running
    loops,                  \* the start_automated_learning coroutines: where each one is
    calls,                  \* the run_learning_cycle calls, in the order they started
    stopped,                \* stop_automated_learning was called and no start since
    request,                \* the ConvexClient._make_request call in progress
    recovery                \* the execute_recovery_plan call in progress

vars == <<member_heap, loadout_templates, target_profit_margins, returned,
          last_call, first_call, ncalls, afiss, calc,
          learning_cycle, is_running, loops, calls, stopped, request, recovery>>

learn_vars == <<learning_cycle, is_running, loops, calls, stopped>>

service_vars == <<learn_vars, request, recovery>>

engine_vars == <<member_heap, loadout_templates, target_profit_margins, returned,
                 last_call, first_call, ncalls>>

----------------------------------------------------------------------------
(* Bounds *)

MaxCalls == 2

CurrentYear == 2026

\* highest hourly rate passed to the employee calculator, in dollars
MaxHourlyRate == 45

\* longest crew passed to the crew calculator
MaxCrewSize == 2

\* longest equipment list of a request
MaxEquipment == 2

\* largest tree dimension passed to calculate_treescore, in feet or inches
MaxDimension == 4

\* recommended rates are probed up to this many U on either side of a bound
RateSpread == 2

\* largest mulching project, in acres
MaxAcres == 2

\* start_automated_learning calls made on the scheduler
MaxLoops == 2

\* run_learning_cycle calls started on the pipeline
MaxCycles == 2

\* largest ConvexConfig.max_retries
MaxRetries == 3

\* longest recovery_steps of a plan added to recovery_plans
MaxSteps == 3

None == -1

----------------------------------------------------------------------------
(* Arithmetic helpers *)

\* floor(a*b/c) for a >= 0, b >= 0, c > 0 without leaving 32 bits
MulDiv(a, b, c) == (a \div c) * b + ((a % c) * b) \div c

\* floor(r * 10^k / c) for 0 <= r < c, digit by digit
RECURSIVE Frac(_, _, _)
Frac(r, c, k) ==
    IF k = 0 THEN 0
    ELSE ((r * 10) \div c) * (10 ^ (k - 1)) + Frac((r * 10) % c, c, k - 1)

\* floor(a * 10^k / c) for a >= 0, c > 0
DivScaled(a, c, k) == (a \div c) * (10 ^ k) + Frac(a % c, c, k)

Max(a, b) == IF a >= b THEN a ELSE b

Min(a, b) == IF a <= b THEN a ELSE b

RECURSIVE SumSeq(_)
SumSeq(s) == IF s = <<>> THEN 0 ELSE Head(s) + SumSeq(Tail(s))

CountIn(s, S) == Cardinality({i \in 1..Len(s) : s[i] \in S})

----------------------------------------------------------------------------
(* Enumerations *)

ProjectType == {"tree_removal", "tree_trimming", "forestry_mulching",
                "stump_grinding", "emergency_response", "lot_clearing"}

LocationState == {"florida", "georgia", "texas", "california", "north_carolina"}

EmployeePosition == {"isa_certified_arborist", "experienced_climber", "ground_crew_lead",
                     "ground_crew_member", "equipment_operator", "apprentice",
                     "crew_supervisor", "safety_manager"}

EquipmentCategory == {"skid_steer_mulcher", "compact_track_loader", "mini_excavator",
                      "bucket_truck", "chipper", "stump_grinder", "log_truck", "pickup_truck"}

\* SeverityFactor values, in 1/100
LIGHT_RESIDENTIAL == 100
STANDARD_WORK == 110
HEAVY_VEGETATION == 125
DISASTER_RECOVERY == 145

----------------------------------------------------------------------------
(* Equipment cost model: EquipmentCostIntelligence *)

\* msrp_new in dollars, salvage_percent, life_hours, fuel_burn_gph in 1/10 gallon,
\* maintenance_factor in percent of depreciation
equipment_defaults ==
    [c \in EquipmentCategory |->
        CASE c = "skid_steer_mulcher"   -> [msrp_new |-> 118000, salvage_percent |-> 20, life_hours |-> 6000,  fuel_burn_gph |-> 55, maintenance_factor |-> 100]
          [] c = "compact_track_loader" -> [msrp_new |-> 75000,  salvage_percent |-> 25, life_hours |-> 6000,  fuel_burn_gph |-> 40, maintenance_factor |-> 80]
          [] c = "mini_excavator"       -> [msrp_new |-> 70000,  salvage_percent |-> 25, life_hours |-> 8000,  fuel_burn_gph |-> 30, maintenance_factor |-> 75]
          [] c = "bucket_truck"         -> [msrp_new |-> 165000, salvage_percent |-> 30, life_hours |-> 10000, fuel_burn_gph |-> 65, maintenance_factor |-> 60]
          [] c = "chipper"              -> [msrp_new |-> 50000,  salvage_percent |-> 25, life_hours |-> 5000,  fuel_burn_gph |-> 25, maintenance_factor |-> 90]
          [] c = "stump_grinder"        -> [msrp_new |-> 45000,  salvage_percent |-> 25, life_hours |-> 5000,  fuel_burn_gph |-> 28, maintenance_factor |-> 90]
          [] c = "log_truck"            -> [msrp_new |-> 220000, salvage_percent |-> 35, life_hours |-> 12000, fuel_burn_gph |-> 70, maintenance_factor |-> 65]
          [] c = "pickup_truck"         -> [msrp_new |-> 65000,  salvage_percent |-> 40, life_hours |-> 8000,  fuel_burn_gph |-> 25, maintenance_factor |-> 50]]

\* fuel price per gallon, in cents
fuel_price == 425

\* cost of capital, in percent
interest_rate == 6

annual_hours == 1200

\* insurance, taxes, storage: percent of the purchase price per year
insurance_rate == 3

\* price * 0.92^age, in cents
RECURSIVE AgeDepreciated(_, _)
AgeDepreciated(price_c, age) ==
    IF age <= 0 THEN price_c ELSE AgeDepreciated(MulDiv(price_c, 92, 100), age - 1)

\* the severity factor left out of repairs and maintenance
RepairsMaintenance_unscaled(depreciation_per_hour, maintenance_factor, severity_factor) ==
    MulDiv(depreciation_per_hour, maintenance_factor, 100)

\* depreciation_per_hour * (maintenance_factor / 100), then *= severity_factor.value
RepairsMaintenance(depreciation_per_hour, maintenance_factor, severity_factor) ==
    MulDiv(MulDiv(depreciation_per_hour, maintenance_factor, 100), severity_factor, 100)

calculate_equipment_cost(equipment_type, purchase_price, year, severity_factor, now_year) ==
    LET defaults == equipment_defaults[equipment_type]
        price_c ==
            IF purchase_price = None
            THEN IF year /= None /\ year /= 0 /\ year < now_year
                 THEN AgeDepreciated(defaults.msrp_new * 100, now_year - year)
                 ELSE defaults.msrp_new * 100
            ELSE purchase_price * 100
        salvage_c == MulDiv(price_c, defaults.salvage_percent, 100)
        depreciation == MulDiv(price_c - salvage_c, 100, defaults.life_hours)
        average_investment == (price_c + salvage_c) \div 2
        interest == MulDiv(average_investment, interest_rate, annual_hours)
        insurance == MulDiv(price_c, insurance_rate, annual_hours)
        total_ownership == depreciation + interest + insurance
        fuel == defaults.fuel_burn_gph * fuel_price * 10
        lubrication == MulDiv(fuel, 15, 100)
        repairs == RepairsMaintenance(depreciation, defaults.maintenance_factor,
                                      severity_factor)
        wear_parts == MulDiv(depreciation, 20, 100)
        total_operating == fuel + lubrication + repairs + wear_parts
    IN  [category |-> equipment_type,
         depreciation_per_hour |-> depreciation,
         interest_per_hour |-> interest,
         insurance_taxes_storage_per_hour |-> insurance,
         total_ownership_per_hour |-> total_ownership,
         fuel_per_hour |-> fuel,
         lubrication_per_hour |-> lubrication,
         repairs_maintenance_per_hour |-> repairs,
         wear_parts_per_hour |-> wear_parts,
         total_operating_per_hour |-> total_operating,
         total_cost_per_hour |-> total_ownership + total_operating,
         severity_factor |-> severity_factor,
         severity_adjusted_cost |-> total_ownership + total_operating]

\* small tools pool: [basis, default_cost_per_hour in U]
small_tools_defaults ==
    << [name |-> "Chainsaws & Power Tools", basis |-> "per_unit",    default_cost_per_hour |-> 4200],
       [name |-> "Climbing Gear",           basis |-> "per_climber", default_cost_per_hour |-> 4200],
       [name |-> "Hand Tools",              basis |-> "per_crew",    default_cost_per_hour |-> 1700],
       [name |-> "Safety Gear",             basis |-> "per_person",  default_cost_per_hour |-> 2500],
       [name |-> "Rigging Gear",            basis |-> "per_crew",    default_cost_per_hour |-> 2800],
       [name |-> "Fuel for Small Tools",    basis |-> "per_crew",    default_cost_per_hour |-> 3300],
       [name |-> "PPE Consumables",         basis |-> "per_person",  default_cost_per_hour |-> 1000] >>

\* crew_config.get(key, 0); crew_config is a dict, its keys are its DOMAIN
CrewConfigGet(crew_config, key) ==
    IF key \in DOMAIN crew_config THEN crew_config[key] ELSE 0

\* cost of one pool category for a crew configuration: a basis whose key the
\* dict lacks costs nothing
SmallToolCategoryCost(tool_category, crew_config) ==
    CASE tool_category.basis = "per_unit" /\ "chainsaws" \in DOMAIN crew_config ->
            tool_category.default_cost_per_hour * crew_config["chainsaws"]
      [] tool_category.basis = "per_climber" /\ "climbers" \in DOMAIN crew_config ->
            tool_category.default_cost_per_hour * crew_config["climbers"]
      [] tool_category.basis = "per_crew" /\ "crews" \in DOMAIN crew_config ->
            tool_category.default_cost_per_hour * crew_config["crews"]
      [] tool_category.basis = "per_person" ->
            tool_category.default_cost_per_hour
                * (CrewConfigGet(crew_config, "climbers") + CrewConfigGet(crew_config, "ground_crew"))
      [] OTHER -> 0

\* the "Total Small Tools Pool" entry of the breakdown
calculate_small_tools_pool_cost(crew_config) ==
    LET cost(tc) == SmallToolCategoryCost(tc, crew_config)
    IN  SumSeq([i \in 1..Len(small_tools_defaults) |-> cost(small_tools_defaults[i])])

\* the loadout total leaves the small tools pool out
calculate_loadout_equipment_cost_heavy_only(equipment_list, crew_config, severity_factor, now_year) ==
    LET one(e) == calculate_equipment_cost(e.type, e.purchase_price, e.year,
                                           severity_factor, now_year).total_cost_per_hour
        total_heavy_equipment_cost == SumSeq([i \in 1..Len(equipment_list) |-> one(equipment_list[i])])
        total_small_tools_cost == calculate_small_tools_pool_cost(crew_config)
    IN  [status |-> "ok",
         heavy_equipment |-> total_heavy_equipment_cost,
         small_tools_pool |-> total_small_tools_cost,
         total_equipment_cost_per_hour |-> total_heavy_equipment_cost]

\* equipment_list: a sequence of [type, purchase_price, year] dicts.
\* EquipmentCategory(equipment["type"]) raises ValueError at the first type that
\* is no category; the percentages of the summary divide by the loadout total
\* and raise when it is 0.
calculate_loadout_equipment_cost(equipment_list, crew_config, severity_factor, now_year) ==
    LET n == Len(equipment_list)
        unknown == {i \in 1..n : equipment_list[i].type \notin EquipmentCategory}
        one(e) == calculate_equipment_cost(e.type, e.purchase_price, e.year,
                                           severity_factor, now_year).total_cost_per_hour
        total_heavy_equipment_cost == SumSeq([i \in 1..n |-> one(equipment_list[i])])
        total_small_tools_cost == calculate_small_tools_pool_cost(crew_config)
        total_loadout_cost_per_hour == total_heavy_equipment_cost + total_small_tools_cost
    IN  IF unknown /= {}
        THEN [status |-> "ValueError"]
        ELSE IF total_loadout_cost_per_hour = 0
        THEN [status |-> "ZeroDivisionError"]
        ELSE [status |-> "ok",
              heavy_equipment |-> total_heavy_equipment_cost,
              small_tools_pool |-> total_small_tools_cost,
              total_equipment_cost_per_hour |-> total_loadout_cost_per_hour]

----------------------------------------------------------------------------
(* Employee cost model: TrueHourlyEmployeeCostCalculator *)

standard_annual_hours == 2080

\* position base rates, in U per hour
position_base_rates ==
    [p \in EmployeePosition |->
        CASE p = "isa_certified_arborist" -> 320000
          [] p = "experienced_climber"    -> 280000
          [] p = "ground_crew_lead"       -> 220000
          [] p = "ground_crew_member"     -> 180000
          [] p = "equipment_operator"     -> 250000
          [] p = "apprentice"             -> 150000
          [] p = "crew_supervisor"        -> 350000
          [] p = "safety_manager"         -> 400000]

\* EmployeeBurdenFactors defaults: rates in 1/10000 of wages, annual amounts in cents
default_burden_factors ==
    [payroll_taxes_rate |-> 765,
     federal_unemployment_rate |-> 60,
     state_unemployment_rate |-> 270,
     workers_comp_rate |-> 1200,
     health_insurance_annual |-> 800000,
     equipment_ppe_annual |-> 300000,
     vehicle_allocation_annual |-> 500000,
     training_certification_annual |-> 200000,
     overhead_allocation_rate |-> 2000]

\* NonProductiveTime defaults, in hours
default_non_productive_time ==
    [pto_sick_hours |-> 100,
     training_hours |-> 60,
     equipment_maintenance_downtime |-> 50,
     weather_delay_hours |-> 80,
     administrative_time |-> 100]

total_non_productive_hours(npt) ==
    npt.pto_sick_hours + npt.training_hours + npt.equipment_maintenance_downtime
        + npt.weather_delay_hours + npt.administrative_time

state_adjustments ==
    [s \in LocationState |->
        CASE s = "florida"        -> [workers_comp_rate |-> 1200, state_unemployment_rate |-> 270, weather_delay_hours |-> 80]
          [] s = "georgia"        -> [workers_comp_rate |-> 1000, state_unemployment_rate |-> 250, weather_delay_hours |-> 60]
          [] s = "texas"          -> [workers_comp_rate |-> 1100, state_unemployment_rate |-> 260, weather_delay_hours |-> 40]
          [] s = "california"     -> [workers_comp_rate |-> 1500, state_unemployment_rate |-> 340, weather_delay_hours |-> 20]
          [] s = "north_carolina" -> [workers_comp_rate |-> 900,  state_unemployment_rate |-> 240, weather_delay_hours |-> 50]]

\* the burden alone spread over the productive hours
TrueHourlyCost_burden_only(annual_base_wages, total_annual_burden, productive_hours) ==
    MulDiv(total_annual_burden, 100, productive_hours)

\* total_annual_cost = annual_base_wages + total_annual_burden (cents);
\* true_hourly_cost = total_annual_cost / productive_hours, in U
TrueHourlyCost(annual_base_wages, total_annual_burden, productive_hours) ==
    MulDiv(annual_base_wages + total_annual_burden, 100, productive_hours)

\* the ratio taken the other way round
BurdenMultiplierRatio_inverted(total_annual_cost, annual_base_wages) ==
    DivScaled(annual_base_wages, total_annual_cost, 4)

\* burden_multiplier = total_annual_cost / annual_base_wages, in 1/10000
BurdenMultiplierRatio(total_annual_cost, annual_base_wages) ==
    DivScaled(total_annual_cost, annual_base_wages, 4)

\* hourly_rate in U (None: the position's base rate); a rate of 0 makes
\* annual_base_wages 0 and the division for burden_multiplier raises
calculate_true_hourly_cost(position, location_state, hourly_rate_in) ==
    LET hourly_rate == IF hourly_rate_in = None THEN position_base_rates[position]
                       ELSE hourly_rate_in
        adj == state_adjustments[location_state]
        burden_factors == [default_burden_factors EXCEPT
                              !.state_unemployment_rate = adj.state_unemployment_rate,
                              !.workers_comp_rate = adj.workers_comp_rate]
        non_productive_time == [default_non_productive_time EXCEPT
                              !.weather_delay_hours = adj.weather_delay_hours]
        \* cents per year
        annual_base_wages == MulDiv(hourly_rate, standard_annual_hours, 100)
        payroll_taxes == MulDiv(annual_base_wages, burden_factors.payroll_taxes_rate, 10000)
        unemployment_taxes == MulDiv(annual_base_wages,
              burden_factors.federal_unemployment_rate + burden_factors.state_unemployment_rate, 10000)
        workers_compensation == MulDiv(annual_base_wages, burden_factors.workers_comp_rate, 10000)
        overhead_allocation == MulDiv(annual_base_wages, burden_factors.overhead_allocation_rate, 10000)
        total_annual_burden == payroll_taxes + unemployment_taxes + workers_compensation
              + burden_factors.health_insurance_annual + burden_factors.equipment_ppe_annual
              + burden_factors.vehicle_allocation_annual + burden_factors.training_certification_annual
              + overhead_allocation
        productive_hours == standard_annual_hours - total_non_productive_hours(non_productive_time)
        total_annual_cost == annual_base_wages + total_annual_burden
        true_hourly_cost == TrueHourlyCost(annual_base_wages, total_annual_burden,
                                           productive_hours)
    IN  IF annual_base_wages = 0
        THEN [status |-> "ZeroDivisionError"]
        ELSE [status |-> "ok",
              position |-> position,
              location_state |-> location_state,
              hourly_rate |-> hourly_rate,
              annual_base_wages |-> annual_base_wages,
              total_annual_burden |-> total_annual_burden,
              productive_hours |-> productive_hours,
              total_annual_cost |-> total_annual_cost,
              true_hourly_cost |-> true_hourly_cost,
              burden_multiplier |-> BurdenMultiplierRatio(total_annual_cost,
                                                          annual_base_wages)]

\* crew_composition: a sequence of [position, hourly_rate] dict values.  The
\* loop raises at the first member whose position is no EmployeePosition
\* (ValueError) or whose cost calculation raises; the average over an empty
\* crew divides 0.0 by 0.0 and raises.
calculate_crew_cost(crew_composition, location_state) ==
    LET n == Len(crew_composition)
        unknown(i) == crew_composition[i].position \notin EmployeePosition
        cost(m) == calculate_true_hourly_cost(m.position, location_state, m.hourly_rate)
        raises(i) == unknown(i) \/ cost(crew_composition[i]).status /= "ok"
        failing == {i \in 1..n : raises(i)}
        first == CHOOSE i \in failing : \A k \in failing : i <= k
        rate(m) == cost(m).hourly_rate
        true_cost(m) == cost(m).true_hourly_cost
        burden(m) == cost(m).true_hourly_cost - cost(m).hourly_rate
        total_hourly_rate == SumSeq([i \in 1..n |-> rate(crew_composition[i])])
        total_true_cost == SumSeq([i \in 1..n |-> true_cost(crew_composition[i])])
    IN  IF failing /= {}
        THEN [status |-> IF unknown(first) THEN "ValueError" ELSE "ZeroDivisionError"]
        ELSE IF n = 0
        THEN [status |-> "ZeroDivisionError"]
        ELSE [status |-> "ok",
              total_base_hourly_rate |-> total_hourly_rate,
              total_true_hourly_cost |-> total_true_cost,
              total_burden_cost_per_hour |-> SumSeq([i \in 1..n |-> burden(crew_composition[i])]),
              \* total_true_cost / total_hourly_rate, in 1/10000
              average_burden_multiplier |-> DivScaled(total_true_cost, total_hourly_rate, 4),
              crew_size |-> n]

----------------------------------------------------------------------------
(* Loadout pricing: LoadoutPricingIntelligence *)

\* target profit margins set by the constructor, in percent
InitialMargins ==
    [pt \in ProjectType |->
        CASE pt = "tree_removal"       -> 35
          [] pt = "tree_trimming"      -> 40
          [] pt = "forestry_mulching"  -> 30
          [] pt = "stump_grinding"     -> 35
          [] pt = "emergency_response" -> 50
          [] pt = "lot_clearing"       -> 32]

\* competitive rate ranges, dollars per hour
competitive_rates ==
    [pt \in ProjectType |->
        CASE pt = "tree_removal"       -> <<200, 350>>
          [] pt = "tree_trimming"      -> <<150, 280>>
          [] pt = "forestry_mulching"  -> <<400, 600>>
          [] pt = "stump_grinding"     -> <<180, 320>>
          [] pt = "emergency_response" -> <<300, 500>>
          [] pt = "lot_clearing"       -> <<350, 550>>]

TemplateNames == {"residential_tree_service", "forestry_mulching_operation",
                  "stump_grinding_crew", "emergency_response_team"}

BucketTruck == [type |-> "bucket_truck", purchase_price |-> 165000, year |-> 2021]
Chipper == [type |-> "chipper", purchase_price |-> 50000, year |-> 2020]
PickupTruck == [type |-> "pickup_truck", purchase_price |-> 65000, year |-> 2023]
SkidSteerMulcher == [type |-> "skid_steer_mulcher", purchase_price |-> 118000, year |-> 2022]
StumpGrinder == [type |-> "stump_grinder", purchase_price |-> 45000, year |-> 2020]

\* the crew-member dicts created by _initialize_loadout_templates, in creation order
InitialHeap ==
    << [position |-> "isa_certified_arborist", hourly_rate |-> 320000],
       [position |-> "experienced_climber",    hourly_rate |-> 280000],
       [position |-> "ground_crew_lead",       hourly_rate |-> 220000],
       [position |-> "ground_crew_member",     hourly_rate |-> 180000],
       [position |-> "equipment_operator",     hourly_rate |-> 250000],
       [position |-> "ground_crew_lead",       hourly_rate |-> 220000],
       [position |-> "ground_crew_member",     hourly_rate |-> 180000],
       [position |-> "equipment_operator",     hourly_rate |-> 250000],
       [position |-> "ground_crew_member",     hourly_rate |-> 180000],
       [position |-> "isa_certified_arborist", hourly_rate |-> 350000],
       [position |-> "experienced_climber",    hourly_rate |-> 300000],
       [position |-> "ground_crew_lead",       hourly_rate |-> 250000],
       [position |-> "ground_crew_member",     hourly_rate |-> 200000],
       [position |-> "safety_manager",         hourly_rate |-> 400000] >>

\* crew_composition holds references (indices into member_heap) to the dicts
initialize_loadout_templates ==
    [t \in TemplateNames |->
        CASE t = "residential_tree_service" ->
                [name |-> "Residential Tree Service Crew",
                 project_type |-> "tree_removal",
                 equipment_list |-> <<BucketTruck, Chipper, PickupTruck>>,
                 crew_composition |-> <<1, 2, 3, 4>>,
                 location_state |-> "florida",
                 severity_factor |-> STANDARD_WORK]
          [] t = "forestry_mulching_operation" ->
                [name |-> "Forestry Mulching Operation",
                 project_type |-> "forestry_mulching",
                 equipment_list |-> <<SkidSteerMulcher, PickupTruck>>,
                 crew_composition |-> <<5, 6, 7>>,
                 location_state |-> "florida",
                 severity_factor |-> HEAVY_VEGETATION]
          [] t = "stump_grinding_crew" ->
                [name |-> "Stump Grinding Crew",
                 project_type |-> "stump_grinding",
                 equipment_list |-> <<StumpGrinder, PickupTruck>>,
                 crew_composition |-> <<8, 9>>,
                 location_state |-> "florida",
                 severity_factor |-> STANDARD_WORK]
          [] t = "emergency_response_team" ->
                [name |-> "Emergency Response Team",
                 project_type |-> "emergency_response",
                 equipment_list |-> <<BucketTruck, Chipper, PickupTruck>>,
                 crew_composition |-> <<10, 11, 12, 13, 14>>,
                 location_state |-> "florida",
                 severity_factor |-> DISASTER_RECOVERY]]

\* a configuration as its holder reads it: the crew references replaced by the dicts
Deref(config, heap) ==
    [config EXCEPT !.crew_composition = [i \in 1..Len(config.crew_composition) |->
                                            heap[config.crew_composition[i]]]]

\* crew_composition: a sequence of [position, hourly_rate] dict values
extract_crew_config(crew_composition) ==
    LET positions == [i \in 1..Len(crew_composition) |-> crew_composition[i].position]
        climbers == CountIn(positions, {"isa_certified_arborist", "experienced_climber"})
        ground_crew == CountIn(positions, {"ground_crew_lead", "ground_crew_member"})
        chainsaws == Max(2, climbers * 2 + Max(1, ground_crew \div 2))
    IN  [climbers |-> climbers, ground_crew |-> ground_crew,
         chainsaws |-> chainsaws, crews |-> 1]

\* a markup on cost instead of a margin on price: total * (1 + target_margin)
BillingRate_markup(total_cost_per_hour, target_margin) ==
    MulDiv(total_cost_per_hour, 100 + target_margin, 100)

\* the margin taken off the cost: total * (1 - target_margin)
BillingRate_discount(total_cost_per_hour, target_margin) ==
    IF target_margin <= 100
    THEN MulDiv(total_cost_per_hour, 100 - target_margin, 100)
    ELSE 0 - MulDiv(total_cost_per_hour, target_margin - 100, 100)

\* total_cost_per_hour / (1 - target_margin), target_margin in percent, /= 100
BillingRate(total_cost_per_hour, target_margin) ==
    IF target_margin < 100
    THEN MulDiv(total_cost_per_hour, 100, 100 - target_margin)
    ELSE 0 - MulDiv(total_cost_per_hour, 100, target_margin - 100)

\* config: a dereferenced LoadoutConfiguration; margins: target_profit_margins
calculate_loadout_pricing(config, margins, now_year) ==
    LET crew_config == extract_crew_config(config.crew_composition)
        equipment_cost_data == calculate_loadout_equipment_cost(
            config.equipment_list, crew_config, config.severity_factor, now_year)
        equipment_cost_per_hour == equipment_cost_data.total_equipment_cost_per_hour
        employee_cost_data == calculate_crew_cost(config.crew_composition, config.location_state)
        employee_cost_per_hour == employee_cost_data.total_true_hourly_cost
        total_cost_per_hour == equipment_cost_per_hour + employee_cost_per_hour
        target_margin == margins[config.project_type]
    IN  IF target_margin = 100
        THEN [status |-> "ZeroDivisionError"]
        ELSE [status |-> "ok",
              project_type |-> config.project_type,
              location_state |-> config.location_state,
              equipment_cost_per_hour |-> equipment_cost_per_hour,
              heavy_equipment_cost |-> equipment_cost_data.heavy_equipment,
              small_tools_cost |-> equipment_cost_data.small_tools_pool,
              employee_cost_per_hour |-> employee_cost_per_hour,
              base_wages_per_hour |-> employee_cost_data.total_base_hourly_rate,
              burden_cost_per_hour |-> employee_cost_data.total_burden_cost_per_hour,
              total_cost_per_hour |-> total_cost_per_hour,
              recommended_billing_rate |-> BillingRate(total_cost_per_hour, target_margin),
              profit_margin_percentage |-> target_margin,
              break_even_rate |-> total_cost_per_hour,
              competitive_rate_range |-> competitive_rates[config.project_type]]

Complexities == {"low", "standard", "high", "extreme"}

\* "high" looked up as the default entry
severity_mapping_high_default(complexity) ==
    CASE complexity = "low"      -> LIGHT_RESIDENTIAL
      [] complexity = "extreme"  -> DISASTER_RECOVERY
      [] OTHER                   -> STANDARD_WORK

severity_mapping(complexity) ==
    CASE complexity = "low"      -> LIGHT_RESIDENTIAL
      [] complexity = "standard" -> STANDARD_WORK
      [] complexity = "high"     -> HEAVY_VEGETATION
      [] complexity = "extreme"  -> DISASTER_RECOVERY
      [] OTHER                   -> STANDARD_WORK

BaseTemplate(project_type) ==
    CASE project_type = "forestry_mulching"  -> "forestry_mulching_operation"
      [] project_type = "stump_grinding"     -> "stump_grinding_crew"
      [] project_type = "emergency_response" -> "emergency_response_team"
      [] OTHER                               -> "residential_tree_service"

OptimizedName(project_type) ==
    CASE project_type = "tree_removal"       -> "Optimized Tree Removal Loadout"
      [] project_type = "tree_trimming"      -> "Optimized Tree Trimming Loadout"
      [] project_type = "forestry_mulching"  -> "Optimized Forestry Mulching Loadout"
      [] project_type = "stump_grinding"     -> "Optimized Stump Grinding Loadout"
      [] project_type = "emergency_response" -> "Optimized Emergency Response Loadout"
      [] project_type = "lot_clearing"       -> "Optimized Lot Clearing Loadout"

\* member["hourly_rate"] *= 1.15
RaisedRate(hourly_rate) == MulDiv(hourly_rate, 115, 100)

\* the state of the heap after the "extreme" crew adjustment of a new list
\* made of the references crew plus a fresh safety-manager dict
ExtremeHeap(heap, crew) ==
    LET grown == Append(heap, [position |-> "safety_manager", hourly_rate |-> 400000])
        touched == {crew[i] : i \in 1..Len(crew)} \cup {Len(grown)}
    IN  [i \in 1..Len(grown) |->
            IF i \in touched
            THEN [grown[i] EXCEPT !.hourly_rate = RaisedRate(grown[i].hourly_rate)]
            ELSE grown[i]]

\* the pair <<configuration returned, heap afterwards>>
optimize_loadout_for_project(templates, heap, project_type, location_state, complexity) ==
    LET base_config == templates[BaseTemplate(project_type)]
        copied == base_config.crew_composition
        optimized_config ==
            [name |-> OptimizedName(project_type),
             project_type |-> project_type,
             equipment_list |-> base_config.equipment_list,
             crew_composition |-> IF complexity = "extreme"
                                  THEN Append(copied, Len(heap) + 1) ELSE copied,
             location_state |-> location_state,
             severity_factor |-> severity_mapping(complexity)]
    IN  << optimized_config,
           IF complexity = "extreme" THEN ExtremeHeap(heap, copied) ELSE heap >>

----------------------------------------------------------------------------
(* The simplified calculator: QuickPricingCalculator *)

QuickEquipmentCategory == {"skid_steer_mulcher", "bucket_truck", "chipper", "pickup_truck"}

QuickEmployeePosition == {"isa_certified_arborist", "ground_crew_member", "equipment_operator"}

\* msrp in dollars, fuel_gph in 1/10 gallon
quick_equipment_defaults ==
    [c \in QuickEquipmentCategory |->
        CASE c = "skid_steer_mulcher" -> [msrp |-> 118000, life_hours |-> 6000,  fuel_gph |-> 55, salvage_pct |-> 20]
          [] c = "bucket_truck"       -> [msrp |-> 165000, life_hours |-> 10000, fuel_gph |-> 65, salvage_pct |-> 30]
          [] c = "chipper"            -> [msrp |-> 50000,  life_hours |-> 5000,  fuel_gph |-> 25, salvage_pct |-> 25]
          [] c = "pickup_truck"       -> [msrp |-> 65000,  life_hours |-> 8000,  fuel_gph |-> 25, salvage_pct |-> 40]]

\* in U per hour
employee_base_rates ==
    [p \in QuickEmployeePosition |->
        CASE p = "isa_certified_arborist" -> 320000
          [] p = "ground_crew_member"     -> 180000
          [] p = "equipment_operator"     -> 250000]

\* the fixed burden multiplier 1.75, in 1/100
burden_multiplier == 175

\* the fixed profit margin of calculate_loadout_cost, in percent
quick_profit_margin == 35

\* total_cost_per_hour of QuickPricingCalculator.calculate_equipment_cost, in U
quick_equipment_cost(equipment_type, severity_factor) ==
    LET defaults == quick_equipment_defaults[equipment_type]
        price_c == defaults.msrp * 100
        salvage_c == MulDiv(price_c, defaults.salvage_pct, 100)
        depreciation == MulDiv(price_c - salvage_c, 100, defaults.life_hours)
        fuel == defaults.fuel_gph * fuel_price * 10
        maintenance == MulDiv(MulDiv(depreciation, 80, 100), severity_factor, 100)
        ownership_cost == depreciation + MulDiv(price_c, 8, annual_hours)
        operating_cost == fuel + maintenance
    IN  ownership_cost + operating_cost

\* true_hourly_cost of QuickPricingCalculator.calculate_employee_cost, in U
quick_employee_cost(position) == MulDiv(employee_base_rates[position], burden_multiplier, 100)

\* QuickPricingCalculator.calculate_loadout_cost
calculate_loadout_cost(equipment_list, crew_list, severity_factor) ==
    LET equipment(e) == quick_equipment_cost(e, severity_factor)
        total_equipment_cost == SumSeq([i \in 1..Len(equipment_list) |-> equipment(equipment_list[i])])
        total_employee_cost == SumSeq([i \in 1..Len(crew_list) |-> quick_employee_cost(crew_list[i])])
        small_tools_cost == Len(crew_list) * 25000
        total_cost == total_equipment_cost + total_employee_cost + small_tools_cost
    IN  [status |-> "ok",
         equipment_cost |-> total_equipment_cost,
         employee_cost |-> total_employee_cost,
         small_tools_cost |-> small_tools_cost,
         total_cost |-> total_cost,
         break_even_rate |-> total_cost,
         recommended_rate |-> BillingRate(total_cost, quick_profit_margin),
         profit_margin |-> quick_profit_margin]

\* the loadouts the callers of the simplified calculator price
QuickEquipmentLists == { <<"bucket_truck", "chipper", "pickup_truck">>,
                         <<"skid_steer_mulcher", "pickup_truck">>,
                         <<"chipper">> }

QuickCrewLists == { <<"isa_certified_arborist", "ground_crew_member", "ground_crew_member">>,
                    <<"equipment_operator", "ground_crew_member">>,
                    <<"ground_crew_member">> }

QuickSeverities == {LIGHT_RESIDENTIAL, STANDARD_WORK, HEAVY_VEGETATION}

----------------------------------------------------------------------------
(* The engine as a state machine.  The coroutines of the engine await only  *)
(* other coroutines of the engine, none of which suspends, so the event     *)
(* loop runs every call from start to end without a switch: one call is one *)
(* step, and the calls of several tasks happen in any order.                *)

\* request values the callers draw from
RequestStates == {"florida", "california"}

NoCall == [op |-> "none"]

NoConfig == [name |-> "none"]

NoAfiss == [kind |-> "none"]

NoCalc == [kind |-> "none"]

Record(call) ==
    /\ last_call' = call
    /\ first_call' = IF first_call = NoCall THEN call ELSE first_call
    /\ ncalls' = ncalls + 1

\* await engine.optimize_loadout_for_project({project_type, location_state, complexity})
OptimizeCall(project_type, location_state, complexity) ==
    /\ ncalls < MaxCalls
    /\ LET r == optimize_loadout_for_project(loadout_templates, member_heap,
                                             project_type, location_state, complexity)
       IN  /\ member_heap' = r[2]
           /\ returned' = r[1]
           /\ Record([op |-> "optimize",
                      target |-> "request",
                      input |-> [project_type |-> project_type,
                                 location_state |-> location_state,
                                 complexity |-> complexity],
                      target_margin |-> None,
                      output |-> Deref(r[1], r[2])])
    /\ UNCHANGED <<loadout_templates, target_profit_margins, afiss, calc, service_vars>>

\* await engine.calculate_loadout_pricing(config), config a template of the engine
\* or the configuration the latest optimize call returned
PricingCall(target) ==
    /\ ncalls < MaxCalls
    /\ target = "returned" => returned /= NoConfig
    /\ LET config == IF target = "returned" THEN returned ELSE loadout_templates[target]
           input == Deref(config, member_heap)
       IN  Record([op |-> "pricing",
                   target |-> target,
                   input |-> input,
                   target_margin |-> target_profit_margins[input.project_type],
                   output |-> calculate_loadout_pricing(input, target_profit_margins,
                                                        CurrentYear)])
    /\ UNCHANGED <<member_heap, loadout_templates, target_profit_margins, returned, afiss, calc, service_vars>>

----------------------------------------------------------------------------
(* AFISS scoring *)

Domains == {"access", "fall_zone", "interference", "severity", "site_conditions"}

\* base percentages of the factors of the factor database, one factor per
\* domain and base percentage
BasePercentages == {28, 30, 72}

FactorDB == [domain : Domains, base_percentage : BasePercentages]

RECURSIVE SumBase(_)
SumBase(factors) ==
    IF factors = {} THEN 0
    ELSE LET f == CHOOSE f \in factors : TRUE
         IN  f.base_percentage + SumBase(factors \ {f})

\* domain_scores[domain] += factor_match['score'] over the matched factors
DomainScores(triggered) ==
    [d \in Domains |-> SumBase({f \in triggered : f.domain = d})]

\* the access weight taken as 0.25 instead of 0.20
weighted_scores_access_25(domain_scores) ==
    domain_scores["access"] * 25 + domain_scores["fall_zone"] * 25
        + domain_scores["interference"] * 20 + domain_scores["severity"] * 30
        + domain_scores["site_conditions"] * 5

\* alex_agent: sum of the weighted domain scores, in 1/100 point
weighted_scores(domain_scores) ==
    domain_scores["access"] * 20 + domain_scores["fall_zone"] * 25
        + domain_scores["interference"] * 20 + domain_scores["severity"] * 30
        + domain_scores["site_conditions"] * 5

\* the moderate and high branches exchanged
determine_complexity_swapped(composite_score) ==
    IF composite_score <= 2800 THEN <<"low", <<112, 128>> >>
    ELSE IF composite_score <= 4600 THEN <<"high", <<210, 280>> >>
    ELSE IF composite_score <= 5800 THEN <<"moderate", <<145, 185>> >>
    ELSE <<"extreme", <<250, 350>> >>

\* the breakpoints compared with < instead of <=
determine_complexity_strict(composite_score) ==
    IF composite_score < 2800 THEN <<"low", <<112, 128>> >>
    ELSE IF composite_score < 4600 THEN <<"moderate", <<145, 185>> >>
    ELSE IF composite_score < 5800 THEN <<"high", <<210, 280>> >>
    ELSE <<"extreme", <<250, 350>> >>

\* alex_agent: composite in 1/100 point; multiplier range in 1/100
determine_complexity(composite_score) ==
    IF composite_score <= 2800 THEN <<"low", <<112, 128>> >>
    ELSE IF composite_score <= 4600 THEN <<"moderate", <<145, 185>> >>
    ELSE IF composite_score <= 5800 THEN <<"high", <<210, 280>> >>
    ELSE <<"extreme", <<250, 350>> >>

\* AFISSKnowledgeBase.assess_project, from the factors matched to the project
assess_project(triggered) ==
    LET domain_scores == DomainScores(triggered)
        composite_score == weighted_scores(domain_scores)
        c == determine_complexity(composite_score)
    IN  [kind |-> "assess_project",
         domain_scores |-> domain_scores,
         composite_score |-> composite_score,
         complexity |-> c[1],
         multiplier_range |-> c[2]]

\* alex_simple: the composite of the parsed domain scores, in 1/100 point
parse_composite(domain_scores) ==
    domain_scores["access"] * 20 + domain_scores["fall_zone"] * 25
        + domain_scores["interference"] * 20 + domain_scores["severity"] * 30
        + domain_scores["site_conditions"] * 5

\* alex_simple: <<complexity, multiplier in 1/100>>
parse_complexity(composite_score) ==
    IF composite_score >= 6500 THEN <<"extreme", 320>>
    ELSE IF composite_score >= 4500 THEN <<"high", 240>>
    ELSE IF composite_score >= 2500 THEN <<"moderate", 160>>
    ELSE <<"low", 120>>

\* alex_simple _parse_assessment, from the domain scores found in the text
parse_assessment(domain_scores) ==
    LET composite_score == parse_composite(domain_scores)
        c == parse_complexity(composite_score)
    IN  [kind |-> "parse_assessment",
         domain_scores |-> domain_scores,
         composite_score |-> composite_score,
         complexity |-> c[1],
         multiplier |-> c[2]]

\* the keywords assess_afiss_factors of the demo looks for in the description
Keywords == {"narrow_or_driveway", "steep", "house_or_building", "20_feet_or_close",
             "power_line_or_electrical", "overhead", "large", "80_feet_or_tall",
             "concrete", "residential"}

Bonus(found, keyword, points) == IF keyword \in found THEN points ELSE 0

\* demo_alex_complete_pricing: assess_afiss_factors
assess_afiss_factors(found) ==
    LET domain_scores ==
            [d \in Domains |->
                CASE d = "access" -> 5 + Bonus(found, "narrow_or_driveway", 10)
                                       + Bonus(found, "steep", 8)
                  [] d = "fall_zone" -> 8 + Bonus(found, "house_or_building", 20)
                                          + Bonus(found, "20_feet_or_close", 15)
                  [] d = "interference" -> 6 + Bonus(found, "power_line_or_electrical", 25)
                                             + Bonus(found, "overhead", 10)
                  [] d = "severity" -> 4 + Bonus(found, "large", 8)
                                         + Bonus(found, "80_feet_or_tall", 12)
                  [] d = "site_conditions" -> 2 + Bonus(found, "concrete", 5)
                                                + Bonus(found, "residential", 3)]
        composite_score ==
            domain_scores["access"] * 20 + domain_scores["fall_zone"] * 25
                + domain_scores["interference"] * 20 + domain_scores["severity"] * 30
                + domain_scores["site_conditions"] * 5
        c == IF composite_score <= 2800 THEN <<"low", <<112, 128>> >>
             ELSE IF composite_score <= 4600 THEN <<"moderate", <<145, 185>> >>
             ELSE IF composite_score <= 5800 THEN <<"high", <<210, 280>> >>
             ELSE <<"extreme", <<250, 350>> >>
    IN  [kind |-> "assess_afiss_factors",
         domain_scores |-> domain_scores,
         composite_score |-> composite_score,
         complexity |-> c[1],
         multiplier_range |-> c[2]]

\* site-condition multipliers of the Spark job, in 1/100, applied to every factor
MultiplierChoices == {100, 150}

\* treescore_calculation_engine: calculate_afiss, score in 1/100 point
calculate_afiss(project_factors, multiplier) ==
    LET domain_scores == [d \in Domains |->
            SumBase({[f EXCEPT !.base_percentage = MulDiv(f.base_percentage, multiplier, 100)] :
                        f \in {g \in project_factors : g.domain = d}})]
        composite_score ==
            domain_scores["access"] * 20 + domain_scores["fall_zone"] * 25
                + domain_scores["interference"] * 20 + domain_scores["severity"] * 30
                + domain_scores["site_conditions"] * 5
    IN  [kind |-> "calculate_afiss",
         domain_scores |-> domain_scores,
         composite_score |-> Min(composite_score, 10000)]

\* scores the language model may report for a domain: the pattern \\d+(?:\\.\\d+)?
\* takes any unsigned number
ParsedScores == {0, 28, 46, 100, 150}

AssessProject(triggered) ==
    /\ afiss = NoAfiss
    /\ afiss' = assess_project(triggered)
    /\ UNCHANGED <<engine_vars, calc, service_vars>>

ParseAssessment(domain_scores) ==
    /\ afiss = NoAfiss
    /\ afiss' = parse_assessment(domain_scores)
    /\ UNCHANGED <<engine_vars, calc, service_vars>>

AssessAfissFactors(found) ==
    /\ afiss = NoAfiss
    /\ afiss' = assess_afiss_factors(found)
    /\ UNCHANGED <<engine_vars, calc, service_vars>>

CalculateAfiss(project_factors, multiplier) ==
    /\ afiss = NoAfiss
    /\ afiss' = calculate_afiss(project_factors, multiplier)
    /\ UNCHANGED <<engine_vars, calc, service_vars>>

\* one assessment per behaviour: the scorers keep no state between calls
NextAFISS ==
    \/ /\ afiss = NoAfiss
       /\ \E triggered \in SUBSET FactorDB : AssessProject(triggered)
    \/ /\ afiss = NoAfiss
       /\ \E domain_scores \in [Domains -> ParsedScores] : ParseAssessment(domain_scores)
    \/ /\ afiss = NoAfiss
       /\ \E found \in SUBSET Keywords : AssessAfissFactors(found)
    \/ /\ afiss = NoAfiss
       /\ \E project_factors \in SUBSET FactorDB, m \in MultiplierChoices :
             CalculateAfiss(project_factors, m)

\* calculator.calculate_loadout_cost(equipment_list, crew_list, severity_factor)
QuickCall(equipment_list, crew_list, severity_factor) ==
    /\ ncalls < MaxCalls
    /\ Record([op |-> "quick",
               target |-> "request",
               input |-> [equipment_list |-> equipment_list,
                          crew_list |-> crew_list,
                          severity_factor |-> severity_factor],
               target_margin |-> quick_profit_margin,
               output |-> calculate_loadout_cost(equipment_list, crew_list, severity_factor)])
    /\ UNCHANGED <<member_heap, loadout_templates, target_profit_margins, returned, afiss, calc, service_vars>>

EngineInit ==
    /\ member_heap = InitialHeap
    /\ loadout_templates = initialize_loadout_templates
    /\ target_profit_margins = InitialMargins
    /\ returned = NoConfig
    /\ last_call = NoCall
    /\ first_call = NoCall
    /\ ncalls = 0

Loops == 1..MaxLoops

\* a start_automated_learning coroutine that has not been started
NotStarted == [pc |-> "not_started", call |-> 0, interval_hours |-> None, stop_seen |-> "none"]

NoRequest == [pc |-> "none"]

NoRecovery == [pc |-> "none"]

\* ContinuousLearningPipeline.__init__ and LearningScheduler.__init__
LearnInit ==
    /\ learning_cycle = 0
    /\ is_running = FALSE
    /\ loops = [l \in Loops |-> NotStarted]
    /\ calls = <<>>
    /\ stopped = FALSE

Init ==
    /\ EngineInit
    /\ afiss = NoAfiss
    /\ calc = NoCalc
    /\ LearnInit
    /\ request = NoRequest
    /\ recovery = NoRecovery

Next ==
    \/ \E pt \in ProjectType, st \in RequestStates, cx \in Complexities :
          OptimizeCall(pt, st, cx)
    \/ \E t \in TemplateNames \cup {"returned"} : PricingCall(t)
    \/ \E el \in QuickEquipmentLists, cl \in QuickCrewLists, sf \in QuickSeverities :
          QuickCall(el, cl, sf)

Spec == Init /\ [][Next]_vars

SpecAFISS == Init /\ [][NextAFISS]_vars


----------------------------------------------------------------------------
(* An engine whose margin table the caller has set: target_profit_margins   *)
(* is a plain attribute of the engine, and calculate_loadout_pricing reads  *)
(* the margin from it.                                                      *)

MarginChoices == {35, 100, 150}

\* engine.target_profit_margins[project_type] = margin
ConfigureMargin(project_type, margin) ==
    /\ target_profit_margins[project_type] /= margin
    /\ target_profit_margins' = [target_profit_margins EXCEPT ![project_type] = margin]
    /\ UNCHANGED <<member_heap, loadout_templates, returned, last_call, first_call,
                   ncalls, afiss, calc, service_vars>>

NextMargin ==
    \/ \E pt \in ProjectType, m \in MarginChoices : ConfigureMargin(pt, m)
    \/ \E t \in TemplateNames : PricingCall(t)

SpecMargin == Init /\ [][NextMargin]_vars

----------------------------------------------------------------------------
(* Stateless calculators: each call is one step from the idle state, and    *)
(* calc holds what the call returned.                                       *)

\* composite scores around the breakpoints of both classifiers, in 1/100 point
TierScores == {0, 2499, 2500, 2800, 2801, 4499, 4500, 4600, 4601, 5800, 5801,
               6499, 6500, 10000}

\* _determine_complexity of alex_agent and the classification of alex_simple,
\* each applied to two composite scores
ClassifyPair(s1, s2) ==
    /\ calc = NoCalc
    /\ calc' = [kind |-> "tiers",
                s1 |-> s1,
                s2 |-> s2,
                agent1 |-> determine_complexity(s1)[1],
                agent2 |-> determine_complexity(s2)[1],
                simple1 |-> parse_complexity(s1)[1],
                simple2 |-> parse_complexity(s2)[1]]
    /\ UNCHANGED <<engine_vars, afiss, service_vars>>

\* hourly rates the callers pass, in whole dollars up to MaxHourlyRate; 0 is
\* a float like any other, None leaves the rate to the position's base rate
HourlyRates == {None} \cup {d * 10000 : d \in 0..MaxHourlyRate}

\* calculator.calculate_true_hourly_cost(position, location_state, hourly_rate)
EmployeeCost(position, location_state, hourly_rate) ==
    /\ calc = NoCalc
    /\ calc' = [kind |-> "employee_cost",
                position |-> position,
                location_state |-> location_state,
                hourly_rate |-> hourly_rate,
                out |-> calculate_true_hourly_cost(position, location_state, hourly_rate)]
    /\ UNCHANGED <<engine_vars, afiss, service_vars>>

\* the state comparison of the test suite: the same position and rate costed
\* for Florida and for California
CompareStates(position, hourly_rate) ==
    /\ calc = NoCalc
    /\ calc' = [kind |-> "state_comparison",
                position |-> position,
                hourly_rate |-> hourly_rate,
                fl_cost |-> calculate_true_hourly_cost(position, "florida", hourly_rate),
                ca_cost |-> calculate_true_hourly_cost(position, "california", hourly_rate)]
    /\ UNCHANGED <<engine_vars, afiss, service_vars>>

\* the member dicts a crew_composition is made of: "janitor" is a position
\* string that is no EmployeePosition
CrewMembers == [position : {"experienced_climber", "ground_crew_member", "janitor"},
                hourly_rate : {None, 0, 180000}]

RECURSIVE SeqsUpTo(_, _)
SeqsUpTo(S, n) ==
    IF n = 0 THEN { <<>> }
    ELSE LET shorter == SeqsUpTo(S, n - 1)
         IN  shorter \cup {Append(q, x) : q \in shorter, x \in S}

\* calculator.calculate_crew_cost(crew_composition, location_state)
CrewCost(crew_composition, location_state) ==
    /\ calc = NoCalc
    /\ calc' = [kind |-> "crew_cost",
                crew_composition |-> crew_composition,
                location_state |-> location_state,
                out |-> calculate_crew_cost(crew_composition, location_state)]
    /\ UNCHANGED <<engine_vars, afiss, service_vars>>

\* ECI.calculate_equipment_cost(equipment_type, purchase_price=, year=, severity_factor=)
EquipmentPrices == {None, 45000, 118000}

EquipmentYears == {None, 2020, CurrentYear}

SeverityFactors == {LIGHT_RESIDENTIAL, STANDARD_WORK, HEAVY_VEGETATION, DISASTER_RECOVERY}

EquipmentCost(equipment_type, purchase_price, year, severity_factor) ==
    /\ calc = NoCalc
    /\ calc' = [kind |-> "equipment_cost",
                equipment_type |-> equipment_type,
                purchase_price |-> purchase_price,
                year |-> year,
                severity_factor |-> severity_factor,
                out |-> calculate_equipment_cost(equipment_type, purchase_price, year,
                                                 severity_factor, CurrentYear)]
    /\ UNCHANGED <<engine_vars, afiss, service_vars>>

\* type strings of a request: "crane" is no EquipmentCategory
RequestedTypes == {"chipper", "stump_grinder", "crane"}

\* the severity names of the pricing tools and their map; a name the map
\* lacks falls back to STANDARD_WORK
ToolSeverities == {"light", "standard", "heavy", "extreme"}

tool_severity_map(severity) ==
    CASE severity = "light"    -> LIGHT_RESIDENTIAL
      [] severity = "standard" -> STANDARD_WORK
      [] severity = "heavy"    -> HEAVY_VEGETATION
      [] severity = "extreme"  -> DISASTER_RECOVERY
      [] OTHER -> STANDARD_WORK

\* AlexPricingAgent tool calculate_equipment_hourly_cost, full pricing system:
\* a type that is no EquipmentCategory is caught, listed as "Not found in
\* database" and left out of the total
calculate_equipment_hourly_cost(equipment_types, severity, now_year) ==
    LET severity_factor == tool_severity_map(severity)
        n == Len(equipment_types)
        cost(eq_type) ==
            IF eq_type \in EquipmentCategory
            THEN calculate_equipment_cost(eq_type, None, None, severity_factor,
                                          now_year).total_cost_per_hour
            ELSE 0
    IN  [status |-> "ok",
         total_cost |-> SumSeq([i \in 1..n |-> cost(equipment_types[i])]),
         priced |-> Cardinality({i \in 1..n : equipment_types[i] \in EquipmentCategory}),
         not_found |-> {equipment_types[i] : i \in {k \in 1..n :
                                            equipment_types[k] \notin EquipmentCategory}}]

EquipmentHourlyCostTool(equipment_types, severity) ==
    /\ calc = NoCalc
    /\ calc' = [kind |-> "equipment_tool",
                equipment_types |-> equipment_types,
                severity |-> severity,
                out |-> calculate_equipment_hourly_cost(equipment_types, severity, CurrentYear)]
    /\ UNCHANGED <<engine_vars, afiss, service_vars>>

\* the equipment dicts of a loadout request
EquipmentDicts == [type : RequestedTypes, purchase_price : {None, 45000}, year : {None}]

\* crew_config dicts: the empty dict and one built by _extract_crew_config
EmptyDict == [k \in {} |-> 0]

CrewConfigChoices == {"empty", "extracted"}

CrewConfigOf(choice) ==
    IF choice = "empty" THEN EmptyDict
    ELSE extract_crew_config(<<[position |-> "experienced_climber", hourly_rate |-> None],
                               [position |-> "ground_crew_member", hourly_rate |-> None]>>)

\* ECI.calculate_loadout_equipment_cost(equipment_list, crew_config, severity_factor)
LoadoutEquipmentCost(equipment_list, choice, severity_factor) ==
    /\ calc = NoCalc
    /\ calc' = [kind |-> "loadout_equipment_cost",
                equipment_types |-> [i \in 1..Len(equipment_list) |-> equipment_list[i].type],
                equipment_list |-> equipment_list,
                crew_config |-> choice,
                severity_factor |-> severity_factor,
                out |-> calculate_loadout_equipment_cost(equipment_list, CrewConfigOf(choice),
                                                         severity_factor, CurrentYear)]
    /\ UNCHANGED <<engine_vars, afiss, service_vars>>

\* position and location strings of a crew request: "janitor" is no
\* EmployeePosition, "ohio" no LocationState
RequestedPositions == {"experienced_climber", "ground_crew_member", "janitor"}

RequestedLocations == {"florida", "california", "ohio"}

\* AlexPricingAgent tool calculate_crew_hourly_cost, full pricing system: a
\* position that is no EmployeePosition is dropped from the crew (`continue`),
\* and any exception is caught and returned as a "failed" message
calculate_crew_hourly_cost(crew_positions, location) ==
    LET known == SelectSeq(crew_positions, LAMBDA pos : pos \in EmployeePosition)
        crew_config == [i \in 1..Len(known) |-> [position |-> known[i], hourly_rate |-> None]]
        crew_cost == calculate_crew_cost(crew_config, location)
    IN  IF location \notin LocationState
        THEN [status |-> "failed", error |-> "ValueError"]
        ELSE IF crew_cost.status /= "ok"
        THEN [status |-> "failed", error |-> crew_cost.status]
        ELSE [status |-> "ok",
              total_true_hourly_cost |-> crew_cost.total_true_hourly_cost,
              total_base_hourly_rate |-> crew_cost.total_base_hourly_rate,
              total_burden_cost_per_hour |-> crew_cost.total_burden_cost_per_hour,
              average_burden_multiplier |-> crew_cost.average_burden_multiplier,
              crew_size |-> crew_cost.crew_size]

CrewHourlyCostTool(crew_positions, location) ==
    /\ calc = NoCalc
    /\ calc' = [kind |-> "crew_tool",
                crew_positions |-> crew_positions,
                location |-> location,
                out |-> calculate_crew_hourly_cost(crew_positions, location)]
    /\ UNCHANGED <<engine_vars, afiss, service_vars>>

----------------------------------------------------------------------------
(* TreeScore.  Dimensions are whole feet and inches; base points are        *)
(* integers in units of 1/120 point, which is exact for every formula.      *)

ServiceTypes == {"removal", "stump_grinding", "trimming"}

\* dimensions a caller passes: floats of either sign
Dimensions == (0 - 1)..MaxDimension

\* f"{base_points:.1f}": base_points = num/den, rounded half-even to tenths
FormatTenths(num, den) ==
    LET q == 10 * num
        f == q \div den
        r == q % den
    IN  IF 2 * r > den \/ (2 * r = den /\ f % 2 = 1) THEN f + 1 ELSE f

\* the dbh term inverted: 12 / dbh instead of dbh / 12
calculate_treescore_inverted_dbh(height, canopy_radius, dbh, service_type) ==
    LET base_points ==
            IF service_type = "removal"
            THEN IF dbh = 0 THEN 0 ELSE (height * (canopy_radius * 2) * 12 * 120) \div dbh
            ELSE IF service_type = "stump_grinding" THEN (height + 12) * dbh * 120
            ELSE height * canopy_radius * dbh * 5
    IN  [status |-> "ok",
         base_points |-> base_points,
         text_tenths |-> FormatTenths(base_points, 120)]

\* alex_agent tool calculate_treescore: the points and the tenths its text shows
calculate_treescore(height, canopy_radius, dbh, service_type) ==
    LET base_points ==
            IF service_type = "removal" THEN height * (canopy_radius * 2) * dbh * 10
            ELSE IF service_type = "stump_grinding" THEN (height + 12) * dbh * 120
            ELSE height * canopy_radius * dbh * 5
    IN  [status |-> "ok",
         base_points |-> base_points,
         text_tenths |-> FormatTenths(base_points, 120)]

\* demo_alex_complete_pricing: calculate_treescore returns the points
demo_calculate_treescore(height, canopy_radius, dbh, service_type) ==
    LET base_points ==
            IF service_type = "removal" THEN height * (canopy_radius * 2) * dbh * 10
            ELSE IF service_type = "stump_grinding" THEN (height + 12) * dbh * 120
            ELSE height * canopy_radius * dbh * 5
    IN  [status |-> "ok", base_points |-> base_points]

\* analyze_image_tree: stump depth 6 and a 0.6 factor on trimming
image_calculate_treescore(height, canopy_radius, dbh, service_type) ==
    LET base_points ==
            IF service_type = "removal" THEN height * (canopy_radius * 2) * dbh * 10
            ELSE IF service_type = "stump_grinding" THEN (height + 6) * dbh * 120
            ELSE height * canopy_radius * dbh * 3
    IN  [status |-> "ok",
         service_type |-> service_type,
         height |-> height,
         canopy_radius |-> canopy_radius,
         dbh |-> dbh,
         base_points |-> base_points]

Implementations == {"alex_agent", "demo", "analyze_image_tree"}

TreeScoreOf(impl, height, canopy_radius, dbh, service_type) ==
    CASE impl = "alex_agent" -> calculate_treescore(height, canopy_radius, dbh, service_type)
      [] impl = "demo" -> demo_calculate_treescore(height, canopy_radius, dbh, service_type)
      [] impl = "analyze_image_tree" ->
            image_calculate_treescore(height, canopy_radius, dbh, service_type)

\* one calculate_treescore call
TreeScore(impl, height, canopy_radius, dbh, service_type) ==
    /\ calc = NoCalc
    /\ calc' = [kind |-> "treescore",
                impl |-> impl,
                height |-> height,
                canopy_radius |-> canopy_radius,
                dbh |-> dbh,
                service_type |-> service_type,
                out |-> TreeScoreOf(impl, height, canopy_radius, dbh, service_type)]
    /\ UNCHANGED <<engine_vars, afiss, service_vars>>

TreeDimensions == {"height", "canopy_radius", "dbh"}

\* two removal scores of one implementation: a tree, and the same tree with
\* one dimension raised to a higher value
TreeScoreRaised(impl, height, canopy_radius, dbh, dimension, higher) ==
    /\ calc = NoCalc
    /\ higher > (CASE dimension = "height" -> height
                   [] dimension = "canopy_radius" -> canopy_radius
                   [] dimension = "dbh" -> dbh)
    /\ LET h2 == IF dimension = "height" THEN higher ELSE height
           c2 == IF dimension = "canopy_radius" THEN higher ELSE canopy_radius
           d2 == IF dimension = "dbh" THEN higher ELSE dbh
       IN  calc' = [kind |-> "treescore_raised",
                    impl |-> impl,
                    height |-> height,
                    canopy_radius |-> canopy_radius,
                    dbh |-> dbh,
                    dimension |-> dimension,
                    higher |-> higher,
                    first |-> TreeScoreOf(impl, height, canopy_radius, dbh, "removal"),
                    second |-> TreeScoreOf(impl, h2, c2, d2, "removal")]
    /\ UNCHANGED <<engine_vars, afiss, service_vars>>


----------------------------------------------------------------------------
(* Competitive position of a recommended rate *)

\* both comparisons strict: a rate on a bound of the range falls through
assess_competitive_position_strict(pricing) ==
    LET min_rate == pricing.competitive_rate_range[1] * 10000
        max_rate == pricing.competitive_rate_range[2] * 10000
        recommended == pricing.recommended_billing_rate
    IN  IF min_rate < recommended /\ recommended < max_rate THEN "COMPETITIVE"
        ELSE IF recommended < min_rate THEN "BELOW_MARKET"
        ELSE "PREMIUM"

\* AlexPricingAgent._assess_competitive_position: pricing is the LoadoutPricing
\* of calculate_loadout_pricing, which always has competitive_rate_range
\* (dollars); recommended_billing_rate in U
assess_competitive_position(pricing) ==
    LET min_rate == pricing.competitive_rate_range[1] * 10000
        max_rate == pricing.competitive_rate_range[2] * 10000
        recommended == pricing.recommended_billing_rate
    IN  IF min_rate <= recommended /\ recommended <= max_rate THEN "COMPETITIVE"
        ELSE IF recommended < min_rate THEN "BELOW_MARKET"
        ELSE "PREMIUM"

\* competitive_rates of the demo, dollars per hour; other service types get (200, 350)
demo_competitive_rates(service_type) ==
    CASE service_type = "tree_removal" -> <<200, 350>>
      [] service_type = "forestry_mulching" -> <<400, 600>>
      [] service_type = "stump_grinding" -> <<180, 320>>
      [] OTHER -> <<200, 350>>

\* demo assess_complete_project, competitive analysis; recommended_rate in U
demo_competitive_position(service_type, recommended_rate) ==
    LET competitive_range == demo_competitive_rates(service_type)
    IN  IF competitive_range[1] * 10000 <= recommended_rate
             /\ recommended_rate <= competitive_range[2] * 10000
        THEN "COMPETITIVE"
        ELSE IF recommended_rate < competitive_range[1] * 10000 THEN "BELOW MARKET"
        ELSE "PREMIUM PRICING"

\* recommended rates around the bounds of a range <<min, max>>, in U
RatesAround(range) ==
    {range[1] * 10000 + k : k \in (0 - RateSpread)..RateSpread}
        \cup {range[2] * 10000 + k : k \in (0 - RateSpread)..RateSpread}
        \cup {0, (range[1] + range[2]) * 5000}

CompetitivePosition(project_type, recommended) ==
    /\ calc = NoCalc
    /\ LET pricing == [recommended_billing_rate |-> recommended,
                       competitive_rate_range |-> competitive_rates[project_type]]
       IN  calc' = [kind |-> "competitive_position",
                    impl |-> "integration",
                    project_type |-> project_type,
                    range |-> competitive_rates[project_type],
                    rate |-> recommended,
                    out |-> assess_competitive_position(pricing)]
    /\ UNCHANGED <<engine_vars, afiss, service_vars>>

DemoCompetitivePosition(service_type, recommended_rate) ==
    /\ calc = NoCalc
    /\ calc' = [kind |-> "competitive_position",
                impl |-> "demo",
                project_type |-> service_type,
                range |-> demo_competitive_rates(service_type),
                rate |-> recommended_rate,
                out |-> demo_competitive_position(service_type, recommended_rate)]
    /\ UNCHANGED <<engine_vars, afiss, service_vars>>


----------------------------------------------------------------------------
(* Forestry mulching: AFISS production-rate adjustment *)
\* adjustments in 1/100; base_production_rate in 1/100 ia/h; adjusted rates in
\* 1/10000 ia/h; hours in 1/100 hour

InvasiveSpecies == {"none", "brazilian_pepper", "melaleuca"}

InvasiveSeverities == {"moderate", "heavy"}

TerrainTypes == {"ideal", "moderate", "steep", "rocky", "extreme"}

\* _load_mulching_afiss_factors: site_conditions.VEGETATION_DENSITY_AND_TYPE
VEGETATION_DENSITY_AND_TYPE ==
    [v \in {"extremely_dense", "dense_hardwood", "mixed_dense", "light_vegetation",
            "thin_vegetation", "grasses_small_brush"} |->
        CASE v = "extremely_dense"     -> 0 - 30
          [] v = "dense_hardwood"      -> 0 - 25
          [] v = "mixed_dense"         -> 0 - 20
          [] v = "light_vegetation"    -> 10
          [] v = "thin_vegetation"     -> 15
          [] v = "grasses_small_brush" -> 20]

VegetationDensities == DOMAIN VEGETATION_DENSITY_AND_TYPE \cup {"moderate"}

\* _load_mulching_afiss_factors: site_conditions.INVASIVE_SPECIES_INFESTATION
InvasiveAdjustment(site_conditions) ==
    IF site_conditions.invasive_species = "brazilian_pepper"
    THEN IF site_conditions.invasive_severity = "heavy" THEN 0 - 30 ELSE 0 - 25
    ELSE 0

\* _load_mulching_afiss_factors: site_conditions.TERRAIN_CONDITIONS
TerrainAdjustment(site_conditions) ==
    CASE site_conditions.terrain_type = "extreme" -> 0 - 25
      [] site_conditions.terrain_type = "steep"   -> 0 - 20
      [] site_conditions.terrain_type = "rocky"   -> 0 - 15
      [] site_conditions.terrain_type = "ideal"   -> 15
      [] OTHER -> 0

VegetationAdjustment(site_conditions) ==
    IF site_conditions.vegetation_density \in DOMAIN VEGETATION_DENSITY_AND_TYPE
    THEN VEGETATION_DENSITY_AND_TYPE[site_conditions.vegetation_density]
    ELSE 0

\* the limits left out: the sum of the factors is applied as it is
LimitAdjustment_none(total_adjustment) == total_adjustment

\* total_adjustment = max(-0.70, min(0.40, total_adjustment))
LimitAdjustment(total_adjustment) == Max(0 - 70, Min(40, total_adjustment))

apply_afiss_adjustments(base_production_rate, site_conditions) ==
    LET summed == InvasiveAdjustment(site_conditions)
                      + TerrainAdjustment(site_conditions)
                      + VegetationAdjustment(site_conditions)
        total_adjustment == LimitAdjustment(summed)
    IN  [adjusted_rate |-> base_production_rate * (100 + total_adjustment),
         summed |-> summed,
         total_adjustment |-> total_adjustment]

PackageTypes == {"4_inch", "6_inch", "8_inch", "10_inch"}

\* package_dbh.get(package_type, 6)
package_dbh(package_type) ==
    CASE package_type = "4_inch"  -> 4
      [] package_type = "6_inch"  -> 6
      [] package_type = "8_inch"  -> 8
      [] package_type = "10_inch" -> 10
      [] OTHER -> 6

\* package_difficulty_factors.get(package_type, 0.77), in 1/100
package_difficulty_factors(package_type) ==
    CASE package_type = "4_inch"  -> 100
      [] package_type = "6_inch"  -> 77
      [] package_type = "8_inch"  -> 63
      [] package_type = "10_inch" -> 50
      [] OTHER -> 77

\* hours = package_inches / rate; rate in 1/1000000 ia/h
MulchingHours(package_inches, rate) ==
    IF rate = 0 THEN [status |-> "ZeroDivisionError"]
    ELSE [status |-> "ok",
          mulching_hours |-> IF rate > 0 THEN DivScaled(package_inches * 100, rate, 6)
                             ELSE 0 - DivScaled(package_inches * 100, 0 - rate, 6)]

\* ForestryMulchingAlex.calculate_mulching_economics; base_production_rate here
\* is the AFISS-adjusted rate, in 1/10000 ia/h
class_calculate_mulching_economics(project_size_acres, package_type, base_production_rate) ==
    MulchingHours(project_size_acres * package_dbh(package_type),
                  base_production_rate * package_difficulty_factors(package_type))

\* ForestryMulchingAlex.assess_mulching_project
assess_mulching_project(project_data) ==
    LET adjusted == apply_afiss_adjustments(project_data.base_production_rate,
                                            project_data.site_conditions)
    IN  [total_afiss_adjustment |-> adjusted.total_adjustment,
         summed |-> adjusted.summed,
         adjusted_production_rate |-> adjusted.adjusted_rate,
         economics |-> class_calculate_mulching_economics(
                           project_data.project_size_acres, project_data.package_type,
                           adjusted.adjusted_rate)]

\* mulching_economics.calculate_mulching_economics: the adjustment is an argument
calculate_mulching_economics(project_size_acres, package_type, base_rate, afiss_adjustment) ==
    IF package_type \notin PackageTypes THEN [status |-> "ValueError"]
    ELSE MulchingHours(project_size_acres * package_dbh(package_type),
                       base_rate * (100 + afiss_adjustment)
                           * package_difficulty_factors(package_type))

\* the adjustments the module passes: the scenarios of analyze_afiss_impact and
\* the example of demo_user_example
ScenarioAdjustments == {25, 0, 0 - 15, 0 - 25, 0 - 30, 0 - 45}

\* test_afiss_factor_application: the mock factors, and the sum of the ones that
\* apply limited to [-0.70, +0.40]
TestFactors ==
    [f \in {"brazilian_pepper_moderate", "steep_terrain", "wet_soil", "dense_hardwood",
            "complex_layout", "overhead_utilities"} |->
        CASE f = "brazilian_pepper_moderate" -> 0 - 25
          [] f = "steep_terrain"             -> 0 - 20
          [] f = "wet_soil"                  -> 0 - 20
          [] f = "dense_hardwood"            -> 0 - 25
          [] f = "complex_layout"            -> 0 - 15
          [] f = "overhead_utilities"        -> 0 - 25]

RECURSIVE SumOver(_, _)
SumOver(f, S) ==
    IF S = {} THEN 0
    ELSE LET x == CHOOSE y \in S : TRUE IN f[x] + SumOver(f, S \ {x})

test_afiss_factor_application(applied) == LimitAdjustment(SumOver(TestFactors, applied))

\* base production rates of a request, in 1/100 ia/h
BaseProductionRates == {150, 100 * MaxAcres}

MulchingAssessment(project_data) ==
    /\ calc = NoCalc
    /\ calc' = [kind |-> "mulching_assessment",
                project_data |-> project_data,
                out |-> assess_mulching_project(project_data)]
    /\ UNCHANGED <<engine_vars, afiss, service_vars>>

MulchingEconomics(project_size_acres, package_type, base_production_rate, afiss_adjustment) ==
    /\ calc = NoCalc
    /\ calc' = [kind |-> "mulching_economics",
                package_type |-> package_type,
                base_production_rate |-> base_production_rate,
                afiss_adjustment |-> afiss_adjustment,
                out |-> calculate_mulching_economics(project_size_acres, package_type,
                                                     base_production_rate, afiss_adjustment)]
    /\ UNCHANGED <<engine_vars, afiss, service_vars>>

AfissFactorApplication(applied) ==
    /\ calc = NoCalc
    /\ calc' = [kind |-> "afiss_factor_application",
                applied |-> applied,
                summed |-> SumOver(TestFactors, applied),
                out |-> test_afiss_factor_application(applied)]
    /\ UNCHANGED <<engine_vars, afiss, service_vars>>


----------------------------------------------------------------------------
(* The complexity tier of one composite score, by each classifier *)

TierClassifiers == {"alex_agent", "alex_simple"}

\* <<tier, multipliers in 1/100>> of a composite in 1/100 point
TierOf(impl, composite_score) ==
    IF impl = "alex_agent"
    THEN LET c == determine_complexity(composite_score) IN <<c[1], c[2]>>
    ELSE LET c == parse_complexity(composite_score) IN <<c[1], <<c[2]>> >>

\* analyze_tree_with_measurements: the AFISS part of the structured assessment
\* is written out in the code, whatever the image shows
image_structured_assessment ==
    [afiss_composite_score |-> 2315,
     complexity_level |-> "moderate",
     complexity_multiplier |-> 145]

ClassifyTier(impl, composite_score) ==
    /\ calc = NoCalc
    /\ calc' = [kind |-> "tier",
                impl |-> impl,
                composite_score |-> composite_score,
                complexity |-> TierOf(impl, composite_score)[1],
                multiplier |-> TierOf(impl, composite_score)[2]]
    /\ UNCHANGED <<engine_vars, afiss, service_vars>>

AnalyzeImageTree ==
    /\ calc = NoCalc
    /\ calc' = [kind |-> "tier",
                impl |-> "analyze_image_tree",
                composite_score |-> image_structured_assessment.afiss_composite_score,
                complexity |-> image_structured_assessment.complexity_level,
                multiplier |-> <<image_structured_assessment.complexity_multiplier>>]
    /\ UNCHANGED <<engine_vars, afiss, service_vars>>

NextCalc ==
    \/ /\ calc = NoCalc
       /\ \E s1 \in TierScores, s2 \in TierScores : ClassifyPair(s1, s2)
    \/ /\ calc = NoCalc
       /\ \E p \in EmployeePosition, st \in LocationState, r \in HourlyRates :
             EmployeeCost(p, st, r)
    \/ /\ calc = NoCalc
       /\ \E p \in EmployeePosition, r \in HourlyRates : CompareStates(p, r)
    \/ /\ calc = NoCalc
       /\ \E crew \in SeqsUpTo(CrewMembers, MaxCrewSize), st \in RequestStates :
             CrewCost(crew, st)
    \/ /\ calc = NoCalc
       /\ \E c \in EquipmentCategory, pr \in EquipmentPrices, y \in EquipmentYears,
             sf \in SeverityFactors : EquipmentCost(c, pr, y, sf)
    \/ /\ calc = NoCalc
       /\ \E types \in SeqsUpTo(RequestedTypes, MaxEquipment) \ { <<>> },
             sv \in ToolSeverities : EquipmentHourlyCostTool(types, sv)
    \/ /\ calc = NoCalc
       /\ \E el \in SeqsUpTo(EquipmentDicts, MaxEquipment), ch \in CrewConfigChoices,
             sf \in {STANDARD_WORK} : LoadoutEquipmentCost(el, ch, sf)
    \/ /\ calc = NoCalc
       /\ \E crew \in SeqsUpTo(RequestedPositions, MaxCrewSize) \ { <<>> },
             loc \in RequestedLocations : CrewHourlyCostTool(crew, loc)
    \/ /\ calc = NoCalc
       /\ \E impl \in Implementations, h \in Dimensions, c \in Dimensions, d \in Dimensions,
             st \in ServiceTypes : TreeScore(impl, h, c, d, st)
    \/ /\ calc = NoCalc
       /\ \E impl \in Implementations, h \in Dimensions, c \in Dimensions, d \in Dimensions,
             dim \in TreeDimensions, higher \in Dimensions :
             TreeScoreRaised(impl, h, c, d, dim, higher)
    \/ /\ calc = NoCalc
       /\ \E pt \in ProjectType :
             \E r \in RatesAround(competitive_rates[pt]) : CompetitivePosition(pt, r)
    \/ /\ calc = NoCalc
       /\ \E st \in {"tree_removal", "forestry_mulching", "stump_grinding", "trimming"} :
             \E r \in RatesAround(demo_competitive_rates(st)) : DemoCompetitivePosition(st, r)
    \/ /\ calc = NoCalc
       /\ \E sp \in InvasiveSpecies, sv \in InvasiveSeverities, tt \in TerrainTypes,
             vd \in VegetationDensities, pt \in PackageTypes \cup {"12_inch"},
             br \in BaseProductionRates, ac \in 1..MaxAcres :
             MulchingAssessment([project_size_acres |-> ac,
                                 package_type |-> pt,
                                 base_production_rate |-> br,
                                 site_conditions |-> [invasive_species |-> sp,
                                                      invasive_severity |-> sv,
                                                      terrain_type |-> tt,
                                                      vegetation_density |-> vd]])
    \/ /\ calc = NoCalc
       /\ \E ac \in 1..MaxAcres, pt \in PackageTypes \cup {"12_inch"},
             br \in BaseProductionRates, adj \in ScenarioAdjustments :
             MulchingEconomics(ac, pt, br, adj)
    \/ /\ calc = NoCalc
       /\ \E applied \in SUBSET DOMAIN TestFactors : AfissFactorApplication(applied)
    \/ /\ calc = NoCalc
       /\ \E impl \in TierClassifiers, s \in TierScores \cup {2315} : ClassifyTier(impl, s)
    \/ AnalyzeImageTree

SpecCalc == Init /\ [][NextCalc]_vars

----------------------------------------------------------------------------
(* The learning pipeline and its scheduler *)
\* One event loop runs the coroutines: a coroutine runs without interruption
\* from one await that suspends to the next.

\* positions of a scheduler loop in which it has not left its while loop
Active == {"cycle", "sleep", "backoff"}

\* interval_hours of a start: a number of hours, or None, for which
\* interval_hours * 3600 raises inside the try of the loop
IntervalHours == {24, None}

\* run_learning_cycle up to its first await: self.learning_cycle += 1
BeginCycle(by) ==
    /\ learning_cycle' = learning_cycle + 1
    /\ calls' = Append(calls, [by |-> by, pc |-> "running", failed |-> FALSE,
                               cycle_number |-> None])

\* run_learning_cycle from its last await to its return: LearningMetrics, or
\* _get_default_metrics when a step failed, built with the learning_cycle of
\* that moment
ReturnMetrics(i, failed) ==
    calls' = [calls EXCEPT ![i] = [@ EXCEPT !.pc = "returned",
                                           !.failed = failed,
                                           !.cycle_number = learning_cycle]]

\* the condition left out: while True
LoopContinues_always(running) == TRUE

\* while self.is_running
LoopContinues(running) == running

\* start_automated_learning up to the first await of its first cycle
StartAutomatedLearning(l, interval_hours) ==
    /\ loops[l].pc = "not_started"
    /\ \A m \in 1..(l - 1) : loops[m].pc /= "not_started"
    /\ Len(calls) < MaxCycles
    /\ is_running' = TRUE
    /\ stopped' = FALSE
    /\ BeginCycle(l)
    /\ loops' = [loops EXCEPT ![l] = [pc |-> "cycle", call |-> Len(calls) + 1,
                                      interval_hours |-> interval_hours,
                                      stop_seen |-> "none"]]
    /\ UNCHANGED <<engine_vars, afiss, calc, request, recovery>>

\* the cycle of loop l returns its metrics; the loop logs them and sleeps for
\* the interval, or for an hour when computing the interval raised
CycleReturns(l, failed) ==
    /\ loops[l].pc = "cycle"
    /\ ReturnMetrics(loops[l].call, failed)
    /\ loops' = [loops EXCEPT ![l].pc = IF loops[l].interval_hours = None
                                        THEN "backoff" ELSE "sleep"]
    /\ UNCHANGED <<learning_cycle, is_running, stopped>>
    /\ UNCHANGED <<engine_vars, afiss, calc, request, recovery>>

\* the sleep of loop l ends: the loop tests is_running and runs its next cycle
\* up to the first await, or returns
Wake(l) ==
    /\ loops[l].pc \in {"sleep", "backoff"}
    /\ IF LoopContinues(is_running)
       THEN /\ Len(calls) < MaxCycles
            /\ BeginCycle(l)
            /\ loops' = [loops EXCEPT ![l].pc = "cycle", ![l].call = Len(calls) + 1]
       ELSE /\ loops' = [loops EXCEPT ![l].pc = "done"]
            /\ UNCHANGED <<learning_cycle, calls>>
    /\ UNCHANGED <<is_running, stopped>>
    /\ UNCHANGED <<engine_vars, afiss, calc, request, recovery>>

\* stop_automated_learning; stop_seen notes where the call found each loop
StopAutomatedLearning ==
    /\ is_running' = FALSE
    /\ stopped' = TRUE
    /\ loops' = [l \in Loops |->
                    IF loops[l].pc \in Active
                    THEN [loops[l] EXCEPT !.stop_seen = loops[l].pc]
                    ELSE loops[l]]
    /\ UNCHANGED <<learning_cycle, calls>>
    /\ UNCHANGED <<engine_vars, afiss, calc, request, recovery>>

\* await pipeline.run_learning_cycle() by a caller other than the scheduler
RunLearningCycle ==
    /\ Len(calls) < MaxCycles
    /\ BeginCycle(0)
    /\ UNCHANGED <<is_running, loops, stopped>>
    /\ UNCHANGED <<engine_vars, afiss, calc, request, recovery>>

LearningCycleReturns(i, failed) ==
    /\ i \in 1..Len(calls)
    /\ calls[i].by = 0
    /\ calls[i].pc = "running"
    /\ ReturnMetrics(i, failed)
    /\ UNCHANGED <<learning_cycle, is_running, loops, stopped>>
    /\ UNCHANGED <<engine_vars, afiss, calc, request, recovery>>

\* a step of scheduler loop l
LoopStep(l) == (\E failed \in BOOLEAN : CycleReturns(l, failed)) \/ Wake(l)

NextLearn ==
    \/ \E l \in Loops, h \in IntervalHours : StartAutomatedLearning(l, h)
    \/ \E l \in Loops, failed \in BOOLEAN : CycleReturns(l, failed)
    \/ \E l \in Loops : Wake(l)
    \/ StopAutomatedLearning
    \/ RunLearningCycle
    \/ \E i \in 1..MaxCycles, failed \in BOOLEAN : LearningCycleReturns(i, failed)

SpecLearn == Init /\ [][NextLearn]_vars

\* every cycle returns (its awaits are requests that end or fail) and every
\* sleep ends
SpecLearnFair == Init /\ [][NextLearn]_vars /\ \A l \in Loops : WF_vars(LoopStep(l))

----------------------------------------------------------------------------
(* ConvexClient._make_request *)

Methods == {"POST", "GET", "PUT"}

\* the subclasses of httpx.HTTPError an attempt fails with
HTTPErrors == {"ConnectError", "TimeoutException", "HTTPStatusError"}

\* the sleep after a failed attempt, in seconds: 2 ** attempt
Backoff(attempt) == 2 ^ attempt

\* await client._make_request(endpoint, data, method) with config.max_retries:
\* range(max_retries) is empty for max_retries <= 0, and the coroutine then
\* falls off its end and returns None
MakeRequest(method, max_retries) ==
    /\ request = NoRequest
    /\ request' = [pc |-> IF max_retries <= 0 THEN "returned" ELSE "attempting",
                   method |-> method,
                   max_retries |-> max_retries,
                   attempt |-> 0,
                   attempts |-> 0,
                   errors |-> <<>>,
                   waits |-> <<>>,
                   result |-> [kind |-> "None"],
                   error |-> "none"]
    /\ UNCHANGED <<engine_vars, afiss, calc, learn_vars, recovery>>

\* raise ValueError(f"Unsupported HTTP method: {method}"): not an httpx.HTTPError
UnsupportedMethod ==
    /\ request.pc = "attempting"
    /\ request.method \notin {"POST", "GET"}
    /\ request' = [request EXCEPT !.pc = "raised", !.error = "ValueError"]
    /\ UNCHANGED <<engine_vars, afiss, calc, learn_vars, recovery>>

\* the response of this attempt passes raise_for_status: return response.json()
AttemptSucceeds ==
    /\ request.pc = "attempting"
    /\ request.method \in {"POST", "GET"}
    /\ request' = [request EXCEPT !.pc = "returned",
                                  !.attempts = @ + 1,
                                  !.result = [kind |-> "json", of_attempt |-> request.attempt]]
    /\ UNCHANGED <<engine_vars, afiss, calc, learn_vars, recovery>>

\* except httpx.HTTPError as e: raise on the last attempt, else sleep
AttemptFails(e) ==
    /\ request.pc = "attempting"
    /\ request.method \in {"POST", "GET"}
    /\ IF request.attempt = request.max_retries - 1
       THEN request' = [request EXCEPT !.pc = "raised",
                                       !.attempts = @ + 1,
                                       !.errors = Append(@, e),
                                       !.error = e]
       ELSE request' = [request EXCEPT !.pc = "sleeping",
                                       !.attempts = @ + 1,
                                       !.errors = Append(@, e),
                                       !.waits = Append(@, Backoff(request.attempt))]
    /\ UNCHANGED <<engine_vars, afiss, calc, learn_vars, recovery>>

\* asyncio.sleep returns: the next attempt of the for loop
BackoffEnds ==
    /\ request.pc = "sleeping"
    /\ request' = [request EXCEPT !.pc = "attempting", !.attempt = @ + 1]
    /\ UNCHANGED <<engine_vars, afiss, calc, learn_vars, recovery>>

NextRequest ==
    \/ \E method \in Methods, max_retries \in 0..MaxRetries : MakeRequest(method, max_retries)
    \/ UnsupportedMethod
    \/ AttemptSucceeds
    \/ \E e \in HTTPErrors : AttemptFails(e)
    \/ BackoffEnds

SpecRequest == Init /\ [][NextRequest]_vars

----------------------------------------------------------------------------
(* TreeAIDisasterRecovery.execute_recovery_plan *)

\* _define_recovery_plans: the number of recovery_steps of each plan
DefinedPlans ==
    [p \in {"database_failure", "cache_failure", "region_failure", "data_corruption",
            "security_incident"} |->
        CASE p = "database_failure"  -> 6
          [] p = "cache_failure"     -> 5
          [] p = "region_failure"    -> 7
          [] p = "data_corruption"   -> 6
          [] p = "security_incident" -> 7]

\* a recovery step: the k-th entry of the recovery_steps of a plan; is_str tells
\* whether the entry is a string, as the steps of the defined plans are
StepsOf(plan_id, kinds) ==
    [k \in 1..Len(kinds) |-> [plan_id |-> plan_id, entry |-> k, is_str |-> kinds[k]]]

\* the recovery_steps a plan appended to recovery_plans can have
AddedSteps == UNION {[1..n -> BOOLEAN] : n \in 0..MaxSteps}

\* self.recovery_plans: the defined plans and one plan "added" with the steps given
recovery_plans(added) ==
    [p \in DOMAIN DefinedPlans \cup {"added"} |->
        IF p = "added" THEN StepsOf(p, added)
        ELSE StepsOf(p, [k \in 1..DefinedPlans[p] |-> TRUE])]

PlanIds == DOMAIN DefinedPlans \cup {"added", "unknown"}

\* _execute_recovery_step calls step.lower(): an exception for a step that is
\* not a string; the dry run only formats the step
StepRaises(step, dry_run) == ~dry_run /\ ~step.is_str

\* the status left in place when the loop is left by an exception
StatusOnReturn_unset(raised) == IF raised THEN "in_progress" ELSE "completed"

\* recovery_log['status'] at the return
StatusOnReturn(raised) == IF raised THEN "failed" ELSE "completed"

\* await dr.execute_recovery_plan(plan_id, dry_run), up to its first await
ExecuteRecoveryPlan(plan_id, dry_run, added) ==
    /\ recovery = NoRecovery
    /\ LET plans == recovery_plans(added)
       IN  IF plan_id \notin DOMAIN plans
           THEN recovery' = [pc |-> "raised", error |-> "ValueError", plan_id |-> plan_id,
                             dry_run |-> dry_run, recovery_steps |-> <<>>,
                             steps_executed |-> <<>>, status |-> "none"]
           ELSE recovery' = [pc |-> IF plans[plan_id] = <<>> THEN "returned" ELSE "running",
                             error |-> "none", plan_id |-> plan_id,
                             dry_run |-> dry_run, recovery_steps |-> plans[plan_id],
                             steps_executed |-> <<>>,
                             status |-> IF plans[plan_id] = <<>>
                                        THEN StatusOnReturn(FALSE) ELSE "in_progress"]
    /\ UNCHANGED <<engine_vars, afiss, calc, learn_vars, request>>

\* the await of the current step ends: the step is appended to steps_executed,
\* or its exception ends the call; after the last step the call returns
RecoveryStep ==
    /\ recovery.pc = "running"
    /\ LET i == Len(recovery.steps_executed) + 1
           step == recovery.recovery_steps[i]
       IN  IF StepRaises(step, recovery.dry_run)
           THEN recovery' = [recovery EXCEPT !.pc = "returned",
                                             !.error = "AttributeError",
                                             !.status = StatusOnReturn(TRUE)]
           ELSE recovery' = [recovery EXCEPT
                    !.steps_executed = Append(@, [step_number |-> i, description |-> step]),
                    !.pc = IF i = Len(recovery.recovery_steps) THEN "returned" ELSE "running",
                    !.status = IF i = Len(recovery.recovery_steps)
                               THEN StatusOnReturn(FALSE) ELSE @]
    /\ UNCHANGED <<engine_vars, afiss, calc, learn_vars, request>>

NextRecovery ==
    \/ \E plan_id \in PlanIds, dry_run \in BOOLEAN, added \in AddedSteps :
          ExecuteRecoveryPlan(plan_id, dry_run, added)
    \/ RecoveryStep

SpecRecovery == Init /\ [][NextRecovery]_vars

----------------------------------------------------------------------------
(* Properties *)

IsPricing(call) == call /= NoCall /\ call.op = "pricing"

IsPriced(call) == IsPricing(call) /\ call.output.status = "ok"

IsOptimize(call) == call /= NoCall /\ call.op = "optimize"

IsQuick(call) == call /= NoCall /\ call.op = "quick"

\* C1: a call with the same input as the first call of the engine returns the
\* same output as that first call, whatever calls were made in between.
C1_SameInputSameOutput ==
    (/\ first_call /= NoCall
     /\ last_call.op = first_call.op
     /\ last_call.input = first_call.input)
        => last_call.output = first_call.output

\* C2: every template of the engine reads as it did at construction: same
\* equipment list, crew positions and crew hourly rates.
C2_TemplatesUnchanged ==
    \A t \in TemplateNames :
        Deref(loadout_templates[t], member_heap)
            = Deref(initialize_loadout_templates[t], InitialHeap)

\* the result of a call made alone on a freshly constructed engine
AlonePricing(t) ==
    calculate_loadout_pricing(Deref(initialize_loadout_templates[t], InitialHeap),
                              InitialMargins, CurrentYear)

AloneOptimize(input) ==
    LET r == optimize_loadout_for_project(initialize_loadout_templates, InitialHeap,
                 input.project_type, input.location_state, input.complexity)
    IN  Deref(r[1], r[2])

\* C3: whatever calls ran before it, a pricing call on a template and an
\* optimize call return what they return when run alone, and every priced
\* loadout has total_cost_per_hour > 0.
C3_SameAsAlone ==
    /\ (IsPricing(last_call) /\ last_call.target \in TemplateNames)
            => last_call.output = AlonePricing(last_call.target)
    /\ IsOptimize(last_call) => last_call.output = AloneOptimize(last_call.input)
    /\ IsPriced(last_call) => last_call.output.total_cost_per_hour > 0

\* C4: a pricing call that reads a target margin >= 1 fails with InvalidMargin.
C4_InvalidMargin ==
    (IsPricing(last_call) /\ last_call.target_margin >= 100)
        => last_call.output.status = "InvalidMargin"

\* the engine: recommended_billing_rate = total_cost_per_hour / (1 - target_margin) for
\* the margin configured for the project type (to the rounding of the last
\* digit), and break_even_rate = total_cost_per_hour.
C5_BillingRateFormula ==
    IsPriced(last_call) =>
        LET out == last_call.output
            m == target_profit_margins[out.project_type]
        IN  /\ out.break_even_rate = out.total_cost_per_hour
            /\ out.recommended_billing_rate * (100 - m) <= out.total_cost_per_hour * 100
            /\ out.total_cost_per_hour * 100 < (out.recommended_billing_rate + 1) * (100 - m)

\* the same for the simplified calculator and its fixed margin of 35%
C5_QuickBillingRateFormula ==
    IsQuick(last_call) =>
        LET out == last_call.output
        IN  /\ out.break_even_rate = out.total_cost
            /\ out.recommended_rate * (100 - 35) <= out.total_cost * 100
            /\ out.total_cost * 100 < (out.recommended_rate + 1) * (100 - 35)

\* C5: recommended_billing_rate = total_cost_per_hour / (1 - target_margin) and
\* break_even_rate = total_cost_per_hour, for every priced loadout of the engine
\* and of the simplified calculator.
C5_BillingRate == C5_BillingRateFormula /\ C5_QuickBillingRateFormula

C5_Witness ==
    /\ IsPriced(last_call)
    /\ last_call.target = "returned"
    /\ last_call.output.project_type = "emergency_response"
    /\ last_call.output.profit_margin_percentage = 50

\* the engine: with 0 < target_margin < 1 the recommended billing rate is
\* strictly greater than the total cost per hour.
C6_RateAboveCost ==
    (/\ IsPriced(last_call)
     /\ last_call.target_margin > 0
     /\ last_call.target_margin < 100)
        => last_call.output.recommended_billing_rate > last_call.output.total_cost_per_hour

\* the same for the simplified calculator
C6_QuickRateAboveCost ==
    IsQuick(last_call) => last_call.output.recommended_rate > last_call.output.total_cost

\* C6: with 0 < target_margin < 1 the recommended billing rate of a priced
\* loadout is strictly greater than its total cost per hour, in the engine and
\* in the simplified calculator.
C6_RateAboveCostEverywhere == C6_RateAboveCost /\ C6_QuickRateAboveCost

C6_Witness ==
    /\ IsPriced(last_call)
    /\ last_call.target = "forestry_mulching_operation"
    /\ last_call.target_margin = 30
    /\ last_call.output.recommended_billing_rate > 0

\* the engine: total_cost_per_hour = heavy equipment + small tools pool + employee
\* true cost, and the reported equipment cost is heavy equipment + small tools pool.
C7_TotalIsSumOfParts ==
    IsPriced(last_call) =>
        LET out == last_call.output
        IN  /\ out.equipment_cost_per_hour = out.heavy_equipment_cost + out.small_tools_cost
            /\ out.total_cost_per_hour = out.heavy_equipment_cost + out.small_tools_cost
                                            + out.employee_cost_per_hour
            /\ out.total_cost_per_hour = out.equipment_cost_per_hour
                                            + out.employee_cost_per_hour

\* the same for the simplified calculator
C7_QuickTotalIsSumOfParts ==
    IsQuick(last_call) =>
        LET out == last_call.output
        IN  out.total_cost = out.equipment_cost + out.small_tools_cost + out.employee_cost

\* C7: a loadout's total cost per hour is heavy equipment + small tools pool +
\* employee true cost, each counted once, in the engine and in the simplified
\* calculator.
C7_TotalIsSum == C7_TotalIsSumOfParts /\ C7_QuickTotalIsSumOfParts

C7_Witness ==
    /\ IsPriced(last_call)
    /\ last_call.target = "residential_tree_service"
    /\ last_call.output.heavy_equipment_cost > 0
    /\ last_call.output.small_tools_cost > 0
    /\ last_call.output.employee_cost_per_hour > 0

InRange(domain_scores) == \A d \in Domains : domain_scores[d] \in 0..100

WeightedSum(domain_scores) ==
    20 * domain_scores["access"] + 25 * domain_scores["fall_zone"]
        + 20 * domain_scores["interference"] + 30 * domain_scores["severity"]
        + 5 * domain_scores["site_conditions"]

\* C8: for domain scores in [0,100]^5 the composite score is
\* 0.20*access + 0.25*fall_zone + 0.20*interference + 0.30*severity
\* + 0.05*site_conditions and lies in [0,100].
C8_CompositeIsWeightedSum ==
    (afiss /= NoAfiss /\ InRange(afiss.domain_scores)) =>
        /\ afiss.composite_score = WeightedSum(afiss.domain_scores)
        /\ afiss.composite_score >= 0
        /\ afiss.composite_score <= 10000

C8_Witness ==
    /\ afiss /= NoAfiss
    /\ afiss.kind = "assess_project"
    /\ afiss.domain_scores = [d \in Domains |-> 100]
    /\ afiss.composite_score = 10000

\* C9: the composite score of an AFISS assessment is never below 0 or above
\* 100, whatever set of risk factors is triggered.
C9_CompositeClamped ==
    afiss /= NoAfiss => (afiss.composite_score >= 0 /\ afiss.composite_score <= 10000)

Tiered(a) == a /= NoAfiss /\ a.kind \in {"assess_project", "assess_afiss_factors"}

\* C10: a composite score s is classified low (1.12, 1.28) when s <= 28,
\* moderate (1.45, 1.85) when 28 < s <= 46, high (2.1, 2.8) when 46 < s <= 58
\* and extreme (2.5, 3.5) when s > 58.
C10_TierBreakpoints ==
    Tiered(afiss) =>
        LET s == afiss.composite_score
            tier == <<afiss.complexity, afiss.multiplier_range>>
        IN  /\ (s <= 2800) => tier = <<"low", <<112, 128>> >>
            /\ (s > 2800 /\ s <= 4600) => tier = <<"moderate", <<145, 185>> >>
            /\ (s > 4600 /\ s <= 5800) => tier = <<"high", <<210, 280>> >>
            /\ (s > 5800) => tier = <<"extreme", <<250, 350>> >>

C10_Witness ==
    /\ Tiered(afiss)
    /\ afiss.kind = "assess_project"
    /\ afiss.composite_score = 4600
    /\ afiss.complexity = "moderate"

TierRank(tier) ==
    CASE tier = "low" -> 1
      [] tier = "moderate" -> 2
      [] tier = "high" -> 3
      [] tier = "extreme" -> 4

\* C11: for two composite scores s1 <= s2 the tier of s2 is never lower than
\* the tier of s1 in the order low < moderate < high < extreme, in each classifier.
C11_TierMonotonic ==
    (calc.kind = "tiers" /\ calc.s1 <= calc.s2) =>
        /\ TierRank(calc.agent1) <= TierRank(calc.agent2)
        /\ TierRank(calc.simple1) <= TierRank(calc.simple2)

C11_Witness ==
    /\ calc.kind = "tiers"
    /\ calc.s1 = 2800
    /\ calc.s2 = 2801
    /\ calc.agent1 = "low"
    /\ calc.agent2 = "moderate"

\* C12: an AFISS scoring request in which a domain score lies outside [0,100]
\* fails with InvalidInput; it is never clamped or scored.
C12_InvalidInput ==
    (afiss /= NoAfiss /\ ~InRange(afiss.domain_scores)) => afiss.kind = "InvalidInput"

EmployeeOk == calc.kind = "employee_cost" /\ calc.out.status = "ok"

CrewOk == calc.kind = "crew_cost" /\ calc.out.status = "ok"

\* C13: true_hourly_cost > hourly_rate for every costed employee, and the
\* total true hourly cost of a costed crew is above its total base hourly rate.
C13_TrueCostAboveRate ==
    /\ EmployeeOk => calc.out.true_hourly_cost > calc.out.hourly_rate
    /\ CrewOk => calc.out.total_true_hourly_cost > calc.out.total_base_hourly_rate

C13_Witness ==
    /\ EmployeeOk
    /\ calc.position = "ground_crew_member"
    /\ calc.location_state = "north_carolina"
    /\ calc.hourly_rate = 450000
    /\ calc.out.true_hourly_cost > 450000

C15_CaliforniaAboveFlorida ==
    (/\ calc.kind = "state_comparison"
     /\ calc.fl_cost.status = "ok"
     /\ calc.ca_cost.status = "ok")
        => calc.ca_cost.true_hourly_cost > calc.fl_cost.true_hourly_cost

EquipmentOk == calc.kind = "equipment_cost"

\* C16: total_cost_per_hour of an equipment cost breakdown is the sum of its
\* seven components (depreciation, interest, insurance, fuel, lubrication,
\* maintenance, wear parts); maintenance is depreciation * maintenance_factor *
\* severity_factor and no other component changes with the severity factor.
C16_TotalIsSumOfSeven ==
    EquipmentOk =>
        LET o == calc.out
            light == calculate_equipment_cost(calc.equipment_type, calc.purchase_price,
                                              calc.year, LIGHT_RESIDENTIAL, CurrentYear)
            mf == equipment_defaults[calc.equipment_type].maintenance_factor
        IN  /\ o.total_cost_per_hour =
                  o.depreciation_per_hour + o.interest_per_hour
                    + o.insurance_taxes_storage_per_hour + o.fuel_per_hour
                    + o.lubrication_per_hour + o.repairs_maintenance_per_hour
                    + o.wear_parts_per_hour
            /\ o.repairs_maintenance_per_hour =
                  MulDiv(MulDiv(o.depreciation_per_hour, mf, 100), calc.severity_factor, 100)
            /\ o.depreciation_per_hour = light.depreciation_per_hour
            /\ o.interest_per_hour = light.interest_per_hour
            /\ o.insurance_taxes_storage_per_hour = light.insurance_taxes_storage_per_hour
            /\ o.fuel_per_hour = light.fuel_per_hour
            /\ o.lubrication_per_hour = light.lubrication_per_hour
            /\ o.wear_parts_per_hour = light.wear_parts_per_hour

C16_Witness ==
    /\ EquipmentOk
    /\ calc.equipment_type = "skid_steer_mulcher"
    /\ calc.purchase_price = 118000
    /\ calc.severity_factor = DISASTER_RECOVERY
    /\ calc.out.repairs_maintenance_per_hour > calc.out.depreciation_per_hour
    /\ calc.out.total_cost_per_hour > 0

HasUnknownCategory(types) == \E i \in 1..Len(types) : types[i] \notin EquipmentCategory

\* the lookup-miss error of the code: the enum conversion raises ValueError
UnknownCategoryErrors == {"UnknownCategory", "ValueError"}

\* C17: an equipment cost request naming a category that has no default entry
\* fails with the unknown-category error; the item is never skipped or priced
\* at zero in a total.
C17_UnknownCategoryFails ==
    (/\ calc.kind \in {"equipment_tool", "loadout_equipment_cost"}
     /\ HasUnknownCategory(calc.equipment_types))
        => calc.out.status \in UnknownCategoryErrors

\* errors that reject an input before any output is built
ValidationErrors == {"InvalidInput", "UnknownCategory", "UnknownPosition", "ValueError"}

\* C18: every core computation either fully succeeds or fails validation: a
\* returned crew or equipment total counts every member of the request, and a
\* call fails only with a validation error, never midway on an input of the
\* right type such as an empty crew or an empty equipment list.
C18_AllOrNothing ==
    /\ (calc.kind = "crew_tool" /\ calc.out.status = "ok")
            => calc.out.crew_size = Len(calc.crew_positions)
    /\ (calc.kind = "equipment_tool" /\ calc.out.status = "ok")
            => calc.out.priced = Len(calc.equipment_types)
    /\ (calc.kind \in {"crew_cost", "loadout_equipment_cost"})
            => calc.out.status \in {"ok"} \cup ValidationErrors
    /\ (calc.kind = "crew_tool" /\ calc.out.status = "failed")
            => calc.out.error \in ValidationErrors

\* C19: for the removal formula and a tree with height > 0, dbh > 0 and
\* canopy_radius >= 0, raising one of height, canopy_radius, dbh with the other
\* two held fixed never lowers the base points, and raises them when the
\* fixed dimensions are all positive.
C19_RemovalMonotonic ==
    (/\ calc.kind = "treescore_raised"
     /\ calc.height > 0
     /\ calc.dbh > 0
     /\ calc.canopy_radius >= 0)
        => /\ calc.second.base_points >= calc.first.base_points
           /\ (calc.canopy_radius > 0 \/ calc.dimension = "canopy_radius")
                  => calc.second.base_points > calc.first.base_points
           /\ calc.impl = "alex_agent"
                  => calc.second.text_tenths >= calc.first.text_tenths

C19_Witness ==
    /\ calc.kind = "treescore_raised"
    /\ calc.impl = "alex_agent"
    /\ calc.height = 2
    /\ calc.canopy_radius = 3
    /\ calc.dbh = 1
    /\ calc.dimension = "dbh"
    /\ calc.higher = 4
    /\ calc.first.base_points = 120
    /\ calc.second.base_points = 480

\* C20: calculate_treescore fails with InvalidInput when height or dbh is zero
\* or negative or any dimension is negative, and every returned base_points
\* value is >= 0.
C20_TreeScoreInvalidInput ==
    calc.kind = "treescore" =>
        /\ (calc.height <= 0 \/ calc.dbh <= 0 \/ calc.canopy_radius < 0)
                => calc.out.status = "InvalidInput"
        /\ calc.out.status = "ok" => calc.out.base_points >= 0

\* the class a label names: the demo prints the classes as "BELOW MARKET" and
\* "PREMIUM PRICING"
PositionClass(label) ==
    CASE label \in {"BELOW_MARKET", "BELOW MARKET"} -> "BELOW_MARKET"
      [] label \in {"PREMIUM", "PREMIUM PRICING"} -> "PREMIUM"
      [] OTHER -> label

\* C21: the competitive position of a recommended rate against the range
\* [min, max] of its project type is COMPETITIVE exactly when min <= rate <= max,
\* BELOW_MARKET exactly when rate < min and PREMIUM exactly when rate > max.
C21_CompetitivePosition ==
    calc.kind = "competitive_position" =>
        LET min_rate == calc.range[1] * 10000
            max_rate == calc.range[2] * 10000
            class == PositionClass(calc.out)
        IN  /\ class \in {"BELOW_MARKET", "COMPETITIVE", "PREMIUM"}
            /\ class = "COMPETITIVE" <=> (min_rate <= calc.rate /\ calc.rate <= max_rate)
            /\ class = "BELOW_MARKET" <=> calc.rate < min_rate
            /\ class = "PREMIUM" <=> calc.rate > max_rate

C21_Witness ==
    /\ calc.kind = "competitive_position"
    /\ calc.impl = "integration"
    /\ calc.project_type = "forestry_mulching"
    /\ calc.rate = 6000000
    /\ calc.out = "COMPETITIVE"

\* C22: optimize_loadout_for_project returns a configuration whose project_type
\* and location_state are the requested ones and whose severity factor is the
\* one of the requested complexity: low 1.0, standard 1.1, high 1.25, extreme
\* 1.45, hence above 1.0 for "high".
C22_OptimizedAsRequested ==
    last_call.op = "optimize" =>
        /\ last_call.output.project_type = last_call.input.project_type
        /\ last_call.output.location_state = last_call.input.location_state
        /\ last_call.output.severity_factor =
              (CASE last_call.input.complexity = "low" -> 100
                 [] last_call.input.complexity = "standard" -> 110
                 [] last_call.input.complexity = "high" -> 125
                 [] last_call.input.complexity = "extreme" -> 145)
        /\ last_call.input.complexity = "high" => last_call.output.severity_factor > 100

C22_Witness ==
    /\ last_call.op = "optimize"
    /\ last_call.input = [project_type |-> "forestry_mulching",
                          location_state |-> "florida",
                          complexity |-> "high"]
    /\ last_call.output.project_type = "forestry_mulching"
    /\ last_call.output.severity_factor = 125

CanonicalTier(composite_score) ==
    IF composite_score <= 2800 THEN "low"
    ELSE IF composite_score <= 4600 THEN "moderate"
    ELSE IF composite_score <= 5800 THEN "high"
    ELSE "extreme"

\* C24: every complexity-tier classifier assigns to every composite score in
\* [0, 100] the tier of the canonical breakpoints (<= 28 low, <= 46 moderate,
\* <= 58 high, > 58 extreme); the composite 23.15 is labelled low with
\* multiplier range (1.12, 1.28) wherever it is classified.
C24_ClassifiersAgree ==
    calc.kind = "tier" =>
        /\ calc.complexity = CanonicalTier(calc.composite_score)
        /\ calc.composite_score = 2315 =>
              (calc.complexity = "low" /\ calc.multiplier = <<112, 128>>)

\* C25: the crew configuration used for small-tools costing counts every crew
\* member: for every crew composition climbers + ground_crew equals the crew
\* size, so the per-person tool categories are charged once for each member,
\* equipment operators, supervisors, apprentices and safety managers included.
C25_EveryMemberCounted ==
    last_call.op = "pricing" =>
        LET crew_config == extract_crew_config(last_call.input.crew_composition)
        IN  crew_config.climbers + crew_config.ground_crew
                = Len(last_call.input.crew_composition)

\* C26: after any sequence of run_learning_cycle calls learning_cycle equals the
\* number of calls started, calls whose steps fail included, and the metrics
\* returned by the k-th started call carry cycle_number = k, also when cycles
\* overlap in time.
C26_CycleNumberOfCall ==
    /\ learning_cycle = Len(calls)
    /\ \A k \in 1..Len(calls) :
          calls[k].pc = "returned" => calls[k].cycle_number = k

\* C27: for any sequence of start_automated_learning and stop_automated_learning
\* calls on one scheduler, at most one scheduler loop is running learning cycles
\* at any time.
C27_OneLoop == Cardinality({l \in Loops : loops[l].pc \in Active}) <= 1

\* learning cycles started by scheduler loops
SchedulerCycles == Cardinality({k \in 1..Len(calls) : calls[k].by /= 0})

\* C28: once stop_automated_learning has been called and start_automated_learning
\* is not called again, the scheduler starts no new learning cycle and every
\* loop eventually leaves its while loop, wherever the stop found it: in a
\* cycle, in the interval sleep or in the one-hour back-off.
C28_StopEndsLoops ==
    /\ [][(stopped /\ stopped') => SchedulerCycles' = SchedulerCycles]_vars
    /\ stopped ~> (~stopped \/ \A l \in Loops : loops[l].pc \notin Active)

C28_Witness ==
    /\ stopped
    /\ loops[1].pc = "done"
    /\ loops[1].stop_seen = "backoff"
    /\ loops[2].pc = "done"
    /\ loops[2].stop_seen = "cycle"

\* C29: _make_request makes at most max_retries HTTP attempts, waits 2^attempt
\* seconds after each failed attempt but the last, returns the JSON of the first
\* successful attempt and otherwise re-raises the HTTP error of the last
\* attempt; it never returns without a result.
C29_RetryContract ==
    (request.pc \in {"returned", "raised"} /\ request.method \in {"POST", "GET"}) =>
        /\ request.attempts <= request.max_retries
        /\ request.waits = [i \in 1..Len(request.waits) |-> 2 ^ (i - 1)]
        /\ request.pc = "returned" =>
              /\ request.result.kind = "json"
              /\ request.result.of_attempt = Len(request.errors)
              /\ Len(request.waits) = Len(request.errors)
        /\ request.pc = "raised" =>
              /\ request.attempts = request.max_retries
              /\ request.error = request.errors[Len(request.errors)]
              /\ Len(request.waits) = Len(request.errors) - 1

\* C30: the log returned by execute_recovery_plan lists the executed steps as a
\* prefix of the plan's recovery_steps in plan order, with step_number 1..k; its
\* status is 'completed' exactly when every step was executed and 'failed'
\* otherwise, never 'in_progress'; an unknown plan_id raises before any step runs.
C30_RecoveryLog ==
    /\ recovery.pc = "returned" =>
          /\ Len(recovery.steps_executed) <= Len(recovery.recovery_steps)
          /\ \A k \in 1..Len(recovery.steps_executed) :
                /\ recovery.steps_executed[k].step_number = k
                /\ recovery.steps_executed[k].description = recovery.recovery_steps[k]
          /\ recovery.status = "completed"
                <=> Len(recovery.steps_executed) = Len(recovery.recovery_steps)
          /\ recovery.status \in {"completed", "failed"}
    /\ (recovery.pc /= "none" /\ recovery.plan_id = "unknown") =>
          /\ recovery.pc = "raised"
          /\ recovery.error = "ValueError"
          /\ recovery.steps_executed = <<>>
    /\ recovery.pc = "raised" => recovery.plan_id = "unknown"

\* an added plan run for real stops at its second step, which is not a string
C30_Witness ==
    /\ recovery.pc = "returned"
    /\ recovery.plan_id = "added"
    /\ ~recovery.dry_run
    /\ Len(recovery.recovery_steps) = 3
    /\ Len(recovery.steps_executed) = 1
    /\ recovery.status = "failed"

====
